---------------------------- MODULE Spec2Model ----------------------------
(***************************************************************************)
(* Model of the effective-cpp-3rd-study repository.                        *)
(*                                                                         *)
(*  - Spec       : the Makefile wrapper (help / run / build / list /       *)
(*                 clean) over a small file system, with the Item 1        *)
(*                 example program as the child process that `make run`    *)
(*                 executes.                                               *)
(*  - SpecFair   : Spec with the scheduling of a running process.          *)
(*  - SpecItem11 : the Widget::operator= variants of the Item 11 note over *)
(*                 a heap of Bitmaps.                                      *)
(***************************************************************************)
EXTENDS Integers, Sequences, FiniteSets, TLC

VARIABLES
    srcDir,      \* TRUE iff the directory src/ exists
    srcFiles,    \* the regular files below src/ (paths)
    buildDir,    \* TRUE iff the directory build/ exists
    aout,        \* what build/a.out holds: "none", "item01" or "other"
    mkState,     \* "idle", "running", "waiting" (for the child), "exited"
    target,      \* the goal of the current make invocation
    FILE,        \* the value of the make variable FILE (<<>> when unset or empty)
    pc,          \* index of the next recipe line of the current invocation
    exitStatus,  \* exit status of the invocation (-1 while it has not ended)
    console,     \* terminal lines of the current invocation
    steps,       \* recipe lines executed by the current invocation, with status
    removed,     \* what the rm of the current invocation found and removed
    pc01,        \* Item 1 program: control location
    i01,         \* Item 1 program: loop index i of c_style_example
    sum01,       \* Item 1 program: sum of c_style_example
    v01,         \* Item 1 program: vector v of stl_example
    k01,         \* Item 1 program: position of the range-for in stl_example
    line01,      \* Item 1 program: text sent to std::cout since the last endl
    out01,       \* Item 1 program: lines written to stdout by this run
    ret01,       \* Item 1 program: value returned by main (-1 before return)
    iters01,     \* Item 1 program: executions of the summing loop's body
    visited01,   \* Item 1 program: vector positions visited by the range-for
    heap,        \* Item 11: the Bitmap at each heap address, [st, val]
    pb,          \* Item 11: the member pb of each Widget (an address)
    wImpl,       \* Item 11: which operator= of the note is being executed
    wLhs,        \* Item 11: the Widget that `this` points to
    wRhs,        \* Item 11: the Widget that rhs refers to
    wPc,         \* Item 11: index of the next statement of operator= (0: no call)
    pOrig,       \* Item 11: the local Bitmap* pOrig
    tempPb,      \* Item 11: the member pb of the local Widget temp (0: no temp)
    wResult,     \* Item 11: how the last call ended
    readFreed,   \* Item 11: the call has read a Bitmap that had been deleted
    copied,      \* Item 11: the call has run the copy of *rhs.pb
    doubleFree,  \* Item 11: the call has deleted a Bitmap that was not live
    freedLog,    \* Item 11: the addresses the call has deleted, in order
    heapAtCall,  \* Item 11: heap when the call began
    pbAtCall,    \* Item 11: pb when the call began
    calls,       \* Item 11: number of calls of operator= so far
    virt07,      \* Item 7: ~TimeKeeper is declared virtual
    heap07,      \* Item 7: what each block of the free store holds
    dataOf,      \* Item 7: the member data of the AtomicClock at a block
    ptk,         \* Item 7: TimeKeeper* ptk (0: not yet assigned)
    pc07,        \* Item 7: where the user code is
    log07,       \* Item 7: what the current delete ptk has run, in order
    n07,         \* Item 7: number of calls of getTimeKeeper so far
    ex09,        \* Item 9: which Transaction class: "dtor", "ctor" or "init"
    pure09,      \* Item 9: Transaction::logTransaction is pure virtual
    cls09,       \* Item 9: the class of the object being declared
    pc09,        \* Item 9: where the program is
    ret09,       \* Item 9: where logTransaction returns to
    vptr09,      \* Item 9: the class whose vtable the object's vptr points to
    part09,      \* Item 9: the members of the derived class (price_)
    out09,       \* Item 9: the lines written to std::cout
    calls09,     \* Item 9: the calls of logTransaction, as resolved
    objs09,      \* Item 9: number of objects declared so far
    addr10,      \* Item 10: the address of each Widget
    mem10,       \* Item 10: the member value of the Widget at each address
    mem10AtStart, \* Item 10: mem10 before the expression is evaluated
    expr10,      \* Item 10: the operands of the assignment expression
    done10,      \* Item 10: how many operator= of the expression have run
    ref10,       \* Item 10: the reference the last operator= returned
    calls10,     \* Item 10: the calls of operator=, in order
    std04,       \* Item 4: the language standard the program is built with
    guard04,     \* Item 4: the state of the initialization of the static fs
    fs04,        \* Item 4: the state of the object fs
    ctors04,     \* Item 4: how many times FileSystem() has run to its end
    pc04,        \* Item 4: where each thread is in tfs()
    got04,       \* Item 4: the state of fs when tfs() last returned to a thread
    n04,         \* Item 4: number of calls of tfs() each thread has made
    waited04,    \* Item 4: the threads that have waited for the initialization
    a02,         \* Item 2: int a
    b02,         \* Item 2: int b
    log02        \* Item 2: the calls made so far, with what f was passed

makeVars == <<srcDir, srcFiles, buildDir, aout, mkState, target, FILE, pc, exitStatus,
              console, steps, removed>>
item01Vars == <<pc01, i01, sum01, v01, k01, line01, out01, ret01, iters01,
                visited01>>
item11Vars == <<heap, pb, wImpl, wLhs, wRhs, wPc, pOrig, wResult, readFreed,
                copied, doubleFree, freedLog, heapAtCall, pbAtCall, calls, tempPb>>
\* the variables of the examples of the lecture notes
item07Vars == <<virt07, heap07, dataOf, ptk, pc07, log07, n07>>
item09Vars == <<ex09, pure09, cls09, pc09, ret09, vptr09, part09, out09, calls09,
                objs09>>
item10Vars == <<addr10, mem10, mem10AtStart, expr10, done10, ref10, calls10>>
item04Vars == <<std04, guard04, fs04, ctors04, pc04, got04, n04, waited04>>
item02Vars == <<a02, b02, log02>>
noteVars == <<item11Vars, item07Vars, item09Vars, item10Vars, item04Vars, item02Vars>>

-----------------------------------------------------------------------------
(* Bounds of the model *)

\* the statuses a process can exit with
ExitStatuses == 0..255

\* the signals whose default action ends the process: 1..64 without those
\* that are ignored by default (SIGCHLD 17, SIGCONT 18, SIGURG 23, SIGWINCH
\* 28) and those that stop the process, which make then keeps waiting for
\* (SIGSTOP 19, SIGTSTP 20, SIGTTIN 21, SIGTTOU 22)
Signals == (1..64) \ {17, 18, 19, 20, 21, 22, 23, 28}

\* the signals whose default action also writes a core file, when the limit on
\* core files allows one (SIGQUIT, SIGILL, SIGTRAP, SIGABRT, SIGBUS, SIGFPE,
\* SIGSEGV, SIGXCPU, SIGXFSZ, SIGSYS)
CoreSignals == {3, 4, 5, 6, 7, 8, 11, 24, 25, 31}

\* the most lines that the compiler, or a program whose source the repository
\* does not fix, writes to the terminal in one run
MaxLines == 2

\* a line written by the compiler or by such a program: the text is theirs,
\* the model stands one text for all of them
SomeText == "<text>"

\* what the compiler or such a program may write: up to MaxLines lines, the
\* last of which is `open` when no newline ends it
Outputs ==
    {r \in {[lines |-> [j \in 1..n |-> SomeText], open |-> o] :
                n \in 0..MaxLines, o \in BOOLEAN} :
        r.open => r.lines # <<>>}

-----------------------------------------------------------------------------
(* Paths: a path is a sequence of one-character strings *)

\* ASCII code of the characters that occur in the modelled paths
Code(c) ==
    CASE c = "." -> 46 [] c = "/" -> 47 [] c = "0" -> 48 [] c = "1" -> 49
      [] c = "a" -> 97 [] c = "b" -> 98 [] c = "c" -> 99 [] c = "d" -> 100
      [] c = "e" -> 101 [] c = "h" -> 104 [] c = "i" -> 105 [] c = "m" -> 109
      [] c = "p" -> 112 [] c = "r" -> 114 [] c = "s" -> 115 [] c = "t" -> 116

RECURSIVE Str(_)
\* the path as the text the shell prints
Str(p) == IF p = <<>> THEN "" ELSE Head(p) \o Str(Tail(p))

Item01Path == <<"s","r","c","/","c","h","0","1","/","i","t","e","m","0","1",".","c","p","p">>
PathB      == <<"s","r","c","/","b",".","c","p","p">>
PathA      == <<"s","r","c","/","a",".","c","p","p">>
PathMd     == <<"s","r","c","/","a",".","m","d">>
PathCppMd  == <<"s","r","c","/","b",".","c","p","p",".","m","d">>

\* the files that may exist below src/
SrcUniverse == {Item01Path, PathB, PathA, PathMd, PathCppMd}

\* the values of FILE a user passes (<<>>: FILE unset, or FILE= )
FileChoices == {<<>>, Item01Path, PathB, PathMd}


-----------------------------------------------------------------------------
(* find src -name "*.cpp" | sort *)

RECURSIVE Basename(_)
\* the part of the path after its last "/": the name that -name is matched against
Basename(p) ==
    IF \E j \in 1..Len(p) : p[j] = "/"
    THEN Basename(Tail(p))
    ELSE p

\* whether s ends with the sequence suf
EndsWith(s, suf) ==
    /\ Len(s) >= Len(suf)
    /\ SubSeq(s, Len(s) - Len(suf) + 1, Len(s)) = suf

\* -name "*.cpp": the glob is matched against the base name
MatchesCpp(p) == EndsWith(Basename(p), <<".","c","p","p">>)

\* the sequences that enumerate the set S, each element once
Enumerations(S) ==
    {q \in [1..Cardinality(S) -> S] : \A a, b \in DOMAIN q : a # b => q[a] # q[b]}

\* find prints the matching paths in directory order, which is not specified
FindOutputs(files) == Enumerations({p \in files : MatchesCpp(p)})

RECURSIVE PathLess(_, _)
\* byte-wise lexicographic order (sort in the C locale)
PathLess(p, q) ==
    IF q = <<>> THEN FALSE
    ELSE IF p = <<>> THEN TRUE
    ELSE IF Code(Head(p)) # Code(Head(q)) THEN Code(Head(p)) < Code(Head(q))
    ELSE PathLess(Tail(p), Tail(q))

RECURSIVE InsertSorted(_, _)
InsertSorted(x, s) ==
    IF s = <<>> THEN <<x>>
    ELSE IF PathLess(Head(s), x) THEN <<Head(s)>> \o InsertSorted(x, Tail(s))
    ELSE <<x>> \o s

\* a pipeline without the sort stage: the lines stay in find's order
SortKeepOrder(s) == s

RECURSIVE Sort(_)
\* sort: the lines in ascending order
Sort(s) == IF s = <<>> THEN <<>> ELSE InsertSorted(Head(s), Sort(Tail(s)))

\* the text of each path, in order
Lines(s) == [j \in 1..Len(s) |-> Str(s[j])]

\* find exits with 1 when its starting point src does not exist (its message
\* goes to /dev/null), and with 0 otherwise
FindStatus(dirExists) == IF dirExists THEN 0 ELSE 1

\* a pipeline whose exit status is that of the first command that fails
ListPipelinePipefail(found, findStatus) ==
    [out    |-> Lines(Sort(found))
                \o (IF findStatus # 0 THEN <<"  (no files yet)">> ELSE <<>>),
     status |-> 0]

\* `find src -name "*.cpp" 2>/dev/null | sort || echo "  (no files yet)"` when
\* find writes the lines `found` and exits with findStatus: the exit status of
\* the pipeline is that of its last command, sort, which is 0 also on empty
\* input; echo runs only when the pipeline's status is not 0
ListPipeline(found, findStatus) ==
    LET sorted == Sort(found)
        sortStatus == 0
        pipelineStatus == sortStatus
    IN  [out    |-> Lines(sorted)
                    \o (IF pipelineStatus # 0 THEN <<"  (no files yet)">> ELSE <<>>),
         status |-> 0]

-----------------------------------------------------------------------------
(* The Makefile: the recipe of each target, after ifndef has been evaluated *)

Echo(ln, text) == [line |-> ln, op |-> "echo", text |-> text, silent |-> TRUE]
Cmd(ln, op, text, silent) == [line |-> ln, op |-> op, text |-> text, silent |-> silent]

CompileCmd(file) ==
    "clang++ -std=c++17 -Wall -Wextra -g -o build/a.out " \o Str(file)

HelpRecipe ==
    << Echo(14, "Effective C++ 3rd Edition - Practice Environment"),
       Echo(15, ""),
       Echo(16, "Usage:"),
       Echo(17, "  make run FILE=src/ch01/item01.cpp   # Compile and run a specific file"),
       Echo(18, "  make build FILE=src/ch01/item01.cpp # Compile only"),
       Echo(19, "  make clean                          # Remove build artifacts"),
       Echo(20, "  make list                           # List all source files"),
       Echo(21, "") >>

\* the run recipe without the ifndef FILE block
RunRecipeNoGuard(file) ==
    << Cmd(31, "mkdir", "mkdir -p build", TRUE),
       Cmd(32, "compile", CompileCmd(file), FALSE),
       Echo(33, "--- Running " \o Str(file) \o " ---"),
       Cmd(34, "exec", "build/a.out", TRUE) >>

\* ifndef FILE: true when FILE has no value or an empty one; the three lines
\* become the first lines of the recipe
RunRecipe(file) ==
    (IF file = <<>>
     THEN << Echo(27, "Error: FILE is not specified"),
             Echo(28, "Usage: make run FILE=src/ch01/item01.cpp"),
             Cmd(29, "exit", "exit 1", TRUE) >>
     ELSE <<>>)
    \o << Cmd(31, "mkdir", "mkdir -p build", TRUE),
          Cmd(32, "compile", CompileCmd(file), FALSE),
          Echo(33, "--- Running " \o Str(file) \o " ---"),
          Cmd(34, "exec", "build/a.out", TRUE) >>

\* a build recipe that ends by running the binary, as the run recipe does
BuildRecipeThenRun(file) ==
    (IF file = <<>>
     THEN << Echo(40, "Error: FILE is not specified"),
             Echo(41, "Usage: make build FILE=src/ch01/item01.cpp"),
             Cmd(42, "exit", "exit 1", TRUE) >>
     ELSE <<>>)
    \o << Cmd(44, "mkdir", "mkdir -p build", TRUE),
          Cmd(45, "compile", CompileCmd(file), FALSE),
          Echo(46, "Built: build/a.out"),
          Cmd(46, "exec", "build/a.out", TRUE) >>

BuildRecipe(file) ==
    (IF file = <<>>
     THEN << Echo(40, "Error: FILE is not specified"),
             Echo(41, "Usage: make build FILE=src/ch01/item01.cpp"),
             Cmd(42, "exit", "exit 1", TRUE) >>
     ELSE <<>>)
    \o << Cmd(44, "mkdir", "mkdir -p build", TRUE),
          Cmd(45, "compile", CompileCmd(file), FALSE),
          Echo(46, "Built: build/a.out") >>

ListRecipe ==
    << Echo(51, "Source files:"),
       Cmd(52, "list", "find src -name \"*.cpp\" 2>/dev/null | sort || echo \"  (no files yet)\"", TRUE) >>

CleanRecipe ==
    << Cmd(57, "rm", "rm -rf build", FALSE),
       Echo(58, "Cleaned build directory") >>

Targets == {"help", "run", "build", "list", "clean"}

Recipe(t, file) ==
    CASE t = "help"  -> HelpRecipe
      [] t = "run"   -> RunRecipe(file)
      [] t = "build" -> BuildRecipe(file)
      [] t = "list"  -> ListRecipe
      [] t = "clean" -> CleanRecipe


-----------------------------------------------------------------------------
(* Running a recipe: make runs the lines in order, each in its own shell, and *)
(* stops at the first line whose status is not 0                             *)

TypeOK ==
    /\ srcDir \in BOOLEAN
    /\ srcFiles \subseteq SrcUniverse
    /\ buildDir \in BOOLEAN
    /\ aout \in {"none", "item01", "other"}
    /\ mkState \in {"idle", "running", "waiting", "exited"}
    /\ target \in Targets \cup {"none"}
    /\ FILE \in FileChoices
    /\ pc \in 0..8
    /\ exitStatus \in -1..2

MakeInit ==
    /\ srcDir \in BOOLEAN
    /\ srcFiles \in SUBSET SrcUniverse
    /\ (~srcDir => srcFiles = {})
    /\ buildDir = FALSE
    /\ aout = "none"
    /\ mkState = "idle"
    /\ target = "none"
    /\ FILE = <<>>
    /\ pc = 0
    /\ exitStatus = -1
    /\ console = <<>>
    /\ steps = <<>>
    /\ removed = {}

Item01Init ==
    /\ pc01 = "idle"
    /\ i01 = 0
    /\ sum01 = 0
    /\ v01 = <<>>
    /\ k01 = 0
    /\ line01 = ""
    /\ out01 = <<>>
    /\ ret01 = -1
    /\ iters01 = 0
    /\ visited01 = <<>>

\* the recipe line make is about to run
Cur == Recipe(target, FILE)[pc]

AtOp(op) == mkState = "running" /\ Cur.op = op

\* make prints a line that is not prefixed with @ before running it
Echoed(con) == IF Cur.silent THEN con ELSE Append(con, Cur.text)

ErrorLine(status) ==
    "make: *** [Makefile:" \o ToString(Cur.line) \o ": " \o target \o "] Error "
        \o ToString(status)

\* what make calls a signal (strsignal)
SignalName(sig) ==
    CASE sig = 1 -> "Hangup"
      [] sig = 2 -> "Interrupt"
      [] sig = 3 -> "Quit"
      [] sig = 4 -> "Illegal instruction"
      [] sig = 5 -> "Trace/breakpoint trap"
      [] sig = 6 -> "Aborted"
      [] sig = 7 -> "Bus error"
      [] sig = 8 -> "Floating point exception"
      [] sig = 9 -> "Killed"
      [] sig = 10 -> "User defined signal 1"
      [] sig = 11 -> "Segmentation fault"
      [] sig = 12 -> "User defined signal 2"
      [] sig = 13 -> "Broken pipe"
      [] sig = 14 -> "Alarm clock"
      [] sig = 15 -> "Terminated"
      [] sig = 16 -> "Stack fault"
      [] sig = 24 -> "CPU time limit exceeded"
      [] sig = 25 -> "File size limit exceeded"
      [] sig = 26 -> "Virtual timer expired"
      [] sig = 27 -> "Profiling timer expired"
      [] sig = 29 -> "I/O possible"
      [] sig = 30 -> "Power failure"
      [] sig = 31 -> "Bad system call"
      [] sig \in 32..33 -> "Unknown signal " \o ToString(sig)
      [] sig \in 34..64 -> "Real-time signal " \o ToString(sig - 34)

\* the last line of make when the command of the current line was killed by
\* the signal sig
KilledLine(sig, core) ==
    "make: *** [Makefile:" \o ToString(Cur.line) \o ": " \o target \o "] "
        \o SignalName(sig) \o (IF core THEN " (core dumped)" ELSE "")

\* make runs a line that has no shell syntax itself: when there is no such
\* program it says so before the Error line
NotFoundLine(prog) == "make: " \o prog \o ": No such file or directory"

\* the terminal after `out` has been written to it
Written(con, out) == con \o out.lines

\* the terminal after make has written msg: the text goes on the line that
\* was left open, or else on a line of its own
Tell(con, open, msg) ==
    IF open /\ con # <<>>
    THEN [con EXCEPT ![Len(con)] = @ \o msg]
    ELSE Append(con, msg)

\* a make that ends with the status of the failing line instead of 2
AdvancePropagate(status, con) ==
    /\ steps' = IF mkState = "waiting"
                THEN [steps EXCEPT ![Len(steps)].status = status]
                ELSE Append(steps, [op |-> Cur.op, line |-> Cur.line, status |-> status])
    /\ IF status = 0
       THEN /\ console' = con
            /\ IF pc = Len(Recipe(target, FILE))
               THEN mkState' = "exited" /\ exitStatus' = 0 /\ pc' = pc
               ELSE mkState' = "running" /\ exitStatus' = exitStatus /\ pc' = pc + 1
       ELSE /\ console' = Append(con, ErrorLine(status))
            /\ mkState' = "exited"
            /\ exitStatus' = status
            /\ pc' = pc
    /\ UNCHANGED <<target, FILE, srcDir, srcFiles>>

\* a make that goes on to the next line after a failing one (recipe lines
\* prefixed with -)
AdvanceIgnoreErrors(status, con) ==
    /\ steps' = IF mkState = "waiting"
                THEN [steps EXCEPT ![Len(steps)].status = status]
                ELSE Append(steps, [op |-> Cur.op, line |-> Cur.line, status |-> status])
    /\ console' = IF status = 0 THEN con ELSE Append(con, ErrorLine(status))
    /\ IF pc = Len(Recipe(target, FILE))
       THEN mkState' = "exited" /\ exitStatus' = 0 /\ pc' = pc
       ELSE mkState' = "running" /\ exitStatus' = exitStatus /\ pc' = pc + 1
    /\ UNCHANGED <<target, FILE, srcDir, srcFiles>>

\* the current line ended with `status`, having left `con` on the terminal;
\* when the status is not 0 make has its say, which leaves `failed` on the
\* terminal, and stops with 2
EndLine(status, con, failed) ==
    /\ steps' = IF mkState = "waiting"
                THEN [steps EXCEPT ![Len(steps)].status = status]
                ELSE Append(steps, [op |-> Cur.op, line |-> Cur.line, status |-> status])
    /\ IF status = 0
       THEN /\ console' = con
            /\ IF pc = Len(Recipe(target, FILE))
               THEN mkState' = "exited" /\ exitStatus' = 0 /\ pc' = pc
               ELSE mkState' = "running" /\ exitStatus' = exitStatus /\ pc' = pc + 1
       ELSE /\ console' = failed
            /\ mkState' = "exited"
            /\ exitStatus' = 2
            /\ pc' = pc
    /\ UNCHANGED <<target, FILE, srcDir, srcFiles>>

\* the command of the current line exited with `status`, having written
\* whole lines only
Advance(status, con) == EndLine(status, con, Append(con, ErrorLine(status)))

\* the user types `make t` or `make t FILE=f`
Invoke(t, f) ==
    /\ mkState \in {"idle", "exited"}
    /\ target' = t
    /\ FILE' = f
    /\ pc' = 1
    /\ mkState' = "running"
    /\ exitStatus' = -1
    /\ console' = <<>>
    /\ steps' = <<>>
    /\ removed' = {}
    /\ UNCHANGED <<srcDir, srcFiles, buildDir, aout>>
    /\ UNCHANGED <<item01Vars, noteVars>>

DoEcho ==
    /\ AtOp("echo")
    /\ Advance(0, Append(Echoed(console), Cur.text))
    /\ UNCHANGED <<buildDir, aout, removed>>
    /\ UNCHANGED <<item01Vars, noteVars>>

\* @exit 1
DoExit ==
    /\ AtOp("exit")
    /\ Advance(1, Echoed(console))
    /\ UNCHANGED <<buildDir, aout, removed>>
    /\ UNCHANGED <<item01Vars, noteVars>>

\* @mkdir -p build
DoMkdir ==
    /\ AtOp("mkdir")
    /\ buildDir' = TRUE
    /\ Advance(0, Echoed(console))
    /\ UNCHANGED <<aout, removed>>
    /\ UNCHANGED <<item01Vars, noteVars>>

\* the statuses the compile line may end with for FILE = f: 0 when f exists
\* and what it holds compiles and links, 1 when f is missing or does not
\* compile, 127 when there is no clang++ to run.  The Item 1 example compiles;
\* the content of the other files is not fixed, and the name of a file does
\* not decide it (a file that is no *.cpp goes to the linker, which takes an
\* object file that defines main).
CompileOutcomes(f) ==
    IF f \notin srcFiles \/ ~buildDir THEN {1, 127}
    ELSE IF f = Item01Path THEN {0, 127}
    ELSE {0, 1, 127}

\* what the compiler may write when it ends with st for FILE = f: whole
\* lines; at least one when it fails (the file is missing, or does not
\* compile); warnings or nothing when it succeeds, nothing for the Item 1
\* example, which compiles without a warning; nothing when it never ran
Diagnostics(f, st) ==
    {d \in Outputs :
        /\ ~d.open
        /\ (st = 1) => d.lines # <<>>
        /\ (st = 127) => d.lines = <<>>
        /\ (st = 0 /\ f = Item01Path) => d.lines = <<>>}

ProgramOf(f) == IF f = Item01Path THEN "item01" ELSE "other"

\* $(CXX) $(CXXFLAGS) -o $(BUILD_DIR)/a.out $(FILE)
DoCompile ==
    /\ AtOp("compile")
    /\ \E st \in CompileOutcomes(FILE) :
          /\ IF st = 0
             THEN aout' = ProgramOf(FILE)
             ELSE aout' \in {aout, "none"}
          /\ \E d \in Diagnostics(FILE, st) :
                LET con == Written(Echoed(console), d)
                IN  IF st = 127
                    THEN EndLine(st, con, Append(Append(con, NotFoundLine("clang++")),
                                                 ErrorLine(st)))
                    ELSE Advance(st, con)
    /\ UNCHANGED <<buildDir, removed>>
    /\ UNCHANGED <<item01Vars, noteVars>>

\* @$(BUILD_DIR)/a.out, the binary being the Item 1 example: the process starts
DoExecItem01 ==
    /\ AtOp("exec")
    /\ aout = "item01"
    /\ mkState' = "waiting"
    /\ pc01' = "main"
    /\ out01' = <<>>
    /\ line01' = ""
    /\ ret01' = -1
    /\ i01' = 0 /\ sum01' = 0 /\ v01' = <<>> /\ k01' = 0
    /\ iters01' = 0 /\ visited01' = <<>>
    /\ console' = Echoed(console)
    /\ steps' = Append(steps, [op |-> Cur.op, line |-> Cur.line, status |-> -1])
    /\ UNCHANGED <<srcDir, srcFiles, buildDir, aout, target, FILE, pc, exitStatus, removed>>
    /\ UNCHANGED noteVars

\* the Item 1 process has ended: make takes its status
DoExecReap ==
    /\ mkState = "waiting"
    /\ pc01 = "exited"
    /\ pc01' = "idle"
    /\ Advance(ret01, console)
    /\ UNCHANGED <<buildDir, aout, removed>>
    /\ UNCHANGED <<i01, sum01, v01, k01, line01, out01, ret01, iters01, visited01>>
    /\ UNCHANGED noteVars

\* @$(BUILD_DIR)/a.out, the binary being another program: it writes what it
\* writes and exits with any status k, or a signal kills it (for the shell
\* that is the status 128 + the signal); or there being no build/a.out, make
\* finds nothing to run (status 127)
DoExecOther ==
    /\ AtOp("exec")
    /\ aout # "item01"
    /\ \/ /\ aout = "none"
          /\ LET con == Echoed(console)
             IN  EndLine(127, con, Append(Append(con, NotFoundLine("build/a.out")),
                                          ErrorLine(127)))
       \/ /\ aout # "none"
          /\ \E out \in Outputs :
                LET con == Written(Echoed(console), out)
                IN  \/ \E k \in ExitStatuses :
                          EndLine(k, con, Tell(con, out.open, ErrorLine(k)))
                    \/ \E sig \in Signals, core \in BOOLEAN :
                          /\ core => sig \in CoreSignals
                          /\ EndLine(128 + sig, con,
                                     Tell(con, out.open, KilledLine(sig, core)))
    /\ UNCHANGED <<buildDir, aout, removed>>
    /\ UNCHANGED <<item01Vars, noteVars>>

\* rm -f build: rm refuses to remove a directory and ends with 1
DoRmNotRecursive ==
    /\ AtOp("rm")
    /\ removed' = {}
    /\ UNCHANGED <<buildDir, aout>>
    /\ Advance(IF buildDir THEN 1 ELSE 0, Echoed(console))
    /\ UNCHANGED <<item01Vars, noteVars>>

\* rm -rf $(BUILD_DIR)
DoRm ==
    /\ AtOp("rm")
    /\ removed' = (IF buildDir THEN {"build"} ELSE {})
                   \cup (IF aout # "none" THEN {"build/a.out"} ELSE {})
    /\ buildDir' = FALSE
    /\ aout' = "none"
    /\ Advance(0, Echoed(console))
    /\ UNCHANGED <<item01Vars, noteVars>>

\* @find src -name "*.cpp" 2>/dev/null | sort || echo "  (no files yet)"
DoList ==
    /\ AtOp("list")
    /\ \E found \in FindOutputs(srcFiles) :
          LET r == ListPipeline(found, FindStatus(srcDir))
          IN  Advance(r.status, Echoed(console) \o r.out)
    /\ UNCHANGED <<buildDir, aout, removed>>
    /\ UNCHANGED <<item01Vars, noteVars>>

MakeNext ==
    \/ \E t \in Targets, f \in FileChoices : Invoke(t, f)
    \/ DoEcho
    \/ DoExit
    \/ DoMkdir
    \/ DoCompile
    \/ DoExecItem01
    \/ DoExecReap
    \/ DoExecOther
    \/ DoRm
    \/ DoList


-----------------------------------------------------------------------------
(* src/ch01/item01.cpp: the process that runs build/a.out *)

\* int arr[] = {1, 2, 3, 4, 5};
Arr01 == <<1, 2, 3, 4, 5>>

\* std::vector<int> v = {5, 2, 8, 1, 9};
Vec01 == <<5, 2, 8, 1, 9>>

\* arr[i]: the element at C index i; a read outside the array may yield anything
ArrRead(i) == IF i \in 0..(Len(Arr01) - 1) THEN {Arr01[i + 1]} ELSE 0..9

\* the loop condition written i <= 5
CStyleCondOffByOne(i) == i <= 5

\* the condition of `for (int i = 0; i < 5; ++i)`
CStyleCond(i) == i < 5

\* template<typename T> T add(T a, T b)
Add(a, b) == a + b

\* operator<< of a double given in tenths (3.5 is 35), in the default format:
\* no decimal point when the fraction is zero
FormatDouble(t) ==
    IF t % 10 = 0 THEN ToString(t \div 10)
    ELSE ToString(t \div 10) \o "." \o ToString(t % 10)

\* the final overrider of draw() for an object of the dynamic type ty
\* (Shape::draw is pure virtual)
Draw(ty) == CASE ty = "Circle" -> "Drawing a circle"

RECURSIVE InsertInt(_, _)
InsertInt(x, s) ==
    IF s = <<>> THEN <<x>>
    ELSE IF Head(s) < x THEN <<Head(s)>> \o InsertInt(x, Tail(s))
    ELSE <<x>> \o s

\* stl_example without the call of std::sort
SortIntsKeepOrder(s) == s

RECURSIVE SortInts(_)
\* std::sort(v.begin(), v.end()): ascending by operator<
SortInts(s) == IF s = <<>> THEN <<>> ELSE InsertInt(Head(s), SortInts(Tail(s)))

\* the lines ls go to stdout, which is the terminal of the make invocation
Print01(ls) ==
    /\ out01' = out01 \o ls
    /\ console' = console \o ls

Item01Frame ==
    UNCHANGED <<srcDir, srcFiles, buildDir, aout, mkState, target, FILE, pc,
                exitStatus, steps, removed, noteVars>>

\* main, lines 56-57
Main_Title ==
    /\ pc01 = "main"
    /\ Print01(<<"=== Item 1: C++ as a federation of languages ===", "">>)
    /\ pc01' = "main59"
    /\ Item01Frame
    /\ UNCHANGED <<i01, sum01, v01, k01, line01, ret01, iters01, visited01>>

\* main, lines 59-60: the heading, then the call of c_style_example, which
\* begins with lines 16-18: int sum = 0; int i = 0
Main_Section1 ==
    /\ pc01 = "main59"
    /\ Print01(<<"[1] C style:">>)
    /\ sum01' = 0
    /\ i01' = 0
    /\ pc01' = "c_loop"
    /\ Item01Frame
    /\ UNCHANGED <<v01, k01, line01, ret01, iters01, visited01>>

\* c_style_example, lines 18-20: one iteration: sum += arr[i]; ++i
CStyle_Body ==
    /\ pc01 = "c_loop"
    /\ CStyleCond(i01)
    /\ \E x \in ArrRead(i01) : sum01' = sum01 + x
    /\ i01' = i01 + 1
    /\ iters01' = iters01 + 1
    /\ Item01Frame
    /\ UNCHANGED <<pc01, v01, k01, line01, out01, console, ret01, visited01>>

\* c_style_example, lines 18 and 21: the loop ends, the sum is printed
CStyle_Print ==
    /\ pc01 = "c_loop"
    /\ ~CStyleCond(i01)
    /\ Print01(<<"C style sum: " \o ToString(sum01)>>)
    /\ pc01' = "main61"
    /\ Item01Frame
    /\ UNCHANGED <<i01, sum01, v01, k01, line01, ret01, iters01, visited01>>

\* main, lines 61-66: Circle c; c.draw()
Main_Section2 ==
    /\ pc01 = "main61"
    /\ Print01(<<"", "[2] Object-Oriented C++:", Draw("Circle"), "">>)
    /\ pc01' = "main68"
    /\ Item01Frame
    /\ UNCHANGED <<i01, sum01, v01, k01, line01, ret01, iters01, visited01>>

\* main, lines 68-71
Main_Section3 ==
    /\ pc01 = "main68"
    /\ Print01(<<"[3] Template C++:",
                 "add(3, 4) = " \o ToString(Add(3, 4)),
                 "add(3.5, 4.5) = " \o FormatDouble(Add(35, 45)),
                 "">>)
    /\ pc01' = "main73"
    /\ Item01Frame
    /\ UNCHANGED <<i01, sum01, v01, k01, line01, ret01, iters01, visited01>>

\* main, lines 73-74: the heading, then the call of stl_example, which begins
\* with line 46
Main_Section4 ==
    /\ pc01 = "main73"
    /\ Print01(<<"[4] STL:">>)
    /\ v01' = Vec01
    /\ pc01' = "s_sort"
    /\ Item01Frame
    /\ UNCHANGED <<i01, sum01, k01, line01, ret01, iters01, visited01>>

\* stl_example, lines 47-48
Stl_Sort ==
    /\ pc01 = "s_sort"
    /\ v01' = SortInts(v01)
    /\ line01' = "STL sorted: "
    /\ k01' = 0
    /\ pc01' = "s_loop"
    /\ Item01Frame
    /\ UNCHANGED <<i01, sum01, out01, console, ret01, iters01, visited01>>

\* stl_example, lines 49-51: one element of the range-for
Stl_Body ==
    /\ pc01 = "s_loop"
    /\ k01 < Len(v01)
    /\ line01' = line01 \o ToString(v01[k01 + 1]) \o " "
    /\ visited01' = Append(visited01, k01)
    /\ k01' = k01 + 1
    /\ Item01Frame
    /\ UNCHANGED <<pc01, i01, sum01, v01, out01, console, ret01, iters01>>

\* stl_example, lines 49 and 52: the range-for ends, std::endl ends the line
Stl_End ==
    /\ pc01 = "s_loop"
    /\ ~(k01 < Len(v01))
    /\ Print01(<<line01>>)
    /\ line01' = ""
    /\ pc01' = "main76"
    /\ Item01Frame
    /\ UNCHANGED <<i01, sum01, v01, k01, ret01, iters01, visited01>>

\* main, line 76: return 0
Main_Return ==
    /\ pc01 = "main76"
    /\ ret01' = 0
    /\ pc01' = "exited"
    /\ Item01Frame
    /\ UNCHANGED <<i01, sum01, v01, k01, line01, out01, console, iters01, visited01>>

Item01Next ==
    \/ Main_Title
    \/ Main_Section1
    \/ CStyle_Body
    \/ CStyle_Print
    \/ Main_Section2
    \/ Main_Section3
    \/ Main_Section4
    \/ Stl_Sort
    \/ Stl_Body
    \/ Stl_End
    \/ Main_Return

-----------------------------------------------------------------------------
(* Item 11: Widget::operator= over a heap of Bitmaps *)

\* number of Widget objects
NumWidgets == 2
\* number of heap addresses a Bitmap can be placed at
NumAddrs == 4
\* number of distinct Bitmap contents
NumContents == 2
\* number of calls of operator= in a run
MaxCalls == 2

\* blocks of the free store of the Item 7 example
NumBlocks == 4

\* calls of getTimeKeeper
MaxClocks == 2

\* objects declared one after the other in the Item 9 example
MaxObjects09 == 3

\* the Widgets of Item 10 hold a value in 0..MaxValue10
MaxValue10 == 2

\* addresses at which the Widgets of Item 10 may be
NumAddrs10 == 3

\* threads that call tfs()
NumThreads04 == 2

\* calls of tfs() by one thread
MaxTfsCalls == 2

\* int a = 5, b = 0;
StartA02 == 5
StartB02 == 0
\* the 10 of b+10
Plus02 == 10
\* a starts in StartA02..StartA02+SpanA02, b in StartB02..StartB02+SpanB02
SpanA02 == 5
SpanB02 == 5
\* calls of CALL_WITH_MAX or callWithMax in a run
MaxCalls02 == 2

Widgets == 1..NumWidgets
Addrs == 1..NumAddrs
Contents == 1..NumContents

Unused == [st |-> "unused", val |-> 0]
\* a deleted Bitmap: its memory is released and what it held is gone
Freed == [st |-> "freed", val |-> 0]
Live(v) == [st |-> "live", val |-> v]

IsLive(h, a) == h[a].st = "live"

\* the operator= of the note without the test for self-assignment
IdentityBodyNoTest == <<"delete", "new">>

\* the reordered operator= without the delete of the old Bitmap
ReorderBodyNoDelete == <<"save", "new">>

\* the first operator= of the note with the copy made before the delete
NaiveBodySaveFirst == <<"save", "new", "deleteOrig">>

\* delete pb; pb = new Bitmap(*rhs.pb); return *this;
NaiveBody == <<"delete", "new">>

\* if (this == &rhs) return *this; delete pb; pb = new Bitmap(*rhs.pb);
IdentityBody == <<"test", "delete", "new">>

\* the reordered operator= with the delete moved back before the new
ReorderBodyDeleteFirst == <<"save", "deleteOrig", "new">>

\* Bitmap* pOrig = pb; pb = new Bitmap(*rhs.pb); delete pOrig;
ReorderBody == <<"save", "new", "deleteOrig">>

\* if (this == &rhs) return *this; then as ReorderBody
ReorderIdentityBody == <<"test", "save", "new", "deleteOrig">>

\* a copy and swap that gives up the old Bitmap before the copy is made
CopySwapBodyDeleteFirst == <<"delete", "copyTemp", "swap", "destroyTemp">>

\* Widget temp(rhs); swap(temp); return *this; } (temp is destroyed)
CopySwapBody == <<"copyTemp", "swap", "destroyTemp">>

Impls == {"naive", "identity", "reorder", "reorderIdentity", "copySwap"}

\* the statements of each operator=, `return *this` following the last
Body(impl) ==
    CASE impl = "naive"           -> NaiveBody
      [] impl = "identity"        -> IdentityBody
      [] impl = "reorder"         -> ReorderBody
      [] impl = "reorderIdentity" -> ReorderIdentityBody
      [] impl = "copySwap"        -> CopySwapBody

Item11Init ==
    /\ pb = [w \in Widgets |-> w]
    /\ heap \in [Addrs -> {Unused} \cup {Live(v) : v \in Contents}]
    /\ \A a \in Addrs : IsLive(heap, a) <=> a \in Widgets
    /\ wImpl = "none"
    /\ wLhs = 1
    /\ wRhs = 1
    /\ wPc = 0
    /\ pOrig = 0
    /\ tempPb = 0
    /\ wResult = "none"
    /\ readFreed = FALSE
    /\ copied = FALSE
    /\ doubleFree = FALSE
    /\ freedLog = <<>>
    /\ heapAtCall = heap
    /\ pbAtCall = pb
    /\ calls = 0

\* the statement the call is about to execute
AtStmt(st) == wPc # 0 /\ Body(wImpl)[wPc] = st

\* the statement is done: the next one, or `return *this`
Proceed ==
    IF wPc = Len(Body(wImpl))
    THEN wPc' = 0 /\ wResult' = "returned"
    ELSE wPc' = wPc + 1 /\ wResult' = wResult

\* the process is killed
Crash == wPc' = 0 /\ wResult' = "crashed"

\* the call is left by an exception
Throw == wPc' = 0 /\ wResult' = "threw"

Item11Frame ==
    UNCHANGED <<makeVars, item01Vars, item07Vars, item09Vars, item10Vars, item04Vars, item02Vars>>

\* w1 = w2 (or w = w) with one of the operator= of the note
Call(impl, l, r) ==
    /\ wPc = 0
    /\ wResult # "crashed"
    /\ calls < MaxCalls
    /\ calls' = calls + 1
    /\ wImpl' = impl
    /\ wLhs' = l
    /\ wRhs' = r
    /\ wPc' = 1
    /\ wResult' = "running"
    /\ pOrig' = 0
    /\ tempPb' = 0
    /\ readFreed' = FALSE
    /\ copied' = FALSE
    /\ doubleFree' = FALSE
    /\ freedLog' = <<>>
    /\ heapAtCall' = heap
    /\ pbAtCall' = pb
    /\ UNCHANGED <<heap, pb>>
    /\ Item11Frame

\* if (this == &rhs) return *this;
IdentityTest ==
    /\ AtStmt("test")
    /\ IF wLhs = wRhs
       THEN wPc' = 0 /\ wResult' = "returned"
       ELSE wPc' = wPc + 1 /\ wResult' = wResult
    /\ UNCHANGED <<heap, pb, wImpl, wLhs, wRhs, pOrig, readFreed, copied,
                   doubleFree, freedLog, heapAtCall, pbAtCall, calls, tempPb>>
    /\ Item11Frame

\* delete a: the Bitmap at a is destroyed and its memory released; deleting
\* what is not a live Bitmap is undefined: the process goes on, or is killed
Delete(a) ==
    /\ freedLog' = Append(freedLog, a)
    /\ IF IsLive(heap, a)
       THEN /\ heap' = [heap EXCEPT ![a] = Freed]
            /\ doubleFree' = doubleFree
            /\ Proceed
       ELSE /\ heap' = heap
            /\ doubleFree' = TRUE
            /\ (Proceed \/ Crash)

\* delete pb;
DeletePb ==
    /\ AtStmt("delete")
    /\ Delete(pb[wLhs])
    /\ UNCHANGED <<pb, wImpl, wLhs, wRhs, pOrig, readFreed, copied, heapAtCall,
                   pbAtCall, calls, tempPb>>
    /\ Item11Frame

\* Bitmap* pOrig = pb;
SaveOrig ==
    /\ AtStmt("save")
    /\ pOrig' = pb[wLhs]
    /\ Proceed
    /\ UNCHANGED <<heap, pb, wImpl, wLhs, wRhs, readFreed, copied, doubleFree,
                   freedLog, heapAtCall, pbAtCall, calls, tempPb>>
    /\ Item11Frame

\* what the copy constructor of Bitmap reads at address src: the content of a
\* live Bitmap; anything when the Bitmap has been deleted
SourceValues(src) == IF IsLive(heap, src) THEN {heap[src].val} ELSE Contents

\* pb = new Bitmap(*rhs.pb): memory is obtained at an address that holds no
\* live Bitmap, *rhs.pb is copied into it, and pb is assigned
NewBitmap ==
    /\ AtStmt("new")
    /\ \E a \in {x \in Addrs : ~IsLive(heap, x)}, v \in SourceValues(pb[wRhs]) :
          /\ heap' = [heap EXCEPT ![a] = Live(v)]
          /\ pb' = [pb EXCEPT ![wLhs] = a]
    /\ copied' = TRUE
    /\ readFreed' = (readFreed \/ ~IsLive(heap, pb[wRhs]))
    /\ Proceed
    /\ UNCHANGED <<wImpl, wLhs, wRhs, pOrig, doubleFree, freedLog, heapAtCall,
                   pbAtCall, calls, tempPb>>
    /\ Item11Frame

\* pb = new Bitmap(*rhs.pb) throws: operator new throws before anything is
\* copied, or the copy constructor throws and the memory obtained is given
\* back; pb is not assigned
NewThrows ==
    /\ AtStmt("new")
    /\ \E inCopy \in BOOLEAN :
          /\ copied' = (copied \/ inCopy)
          /\ readFreed' = (readFreed \/ (inCopy /\ ~IsLive(heap, pb[wRhs])))
    /\ Throw
    /\ UNCHANGED <<heap, pb, wImpl, wLhs, wRhs, pOrig, doubleFree, freedLog,
                   heapAtCall, pbAtCall, calls, tempPb>>
    /\ Item11Frame

\* pb = new Bitmap(*rhs.pb) where *rhs.pb has been deleted: the read may kill
\* the process
NewCrashes ==
    /\ AtStmt("new")
    /\ ~IsLive(heap, pb[wRhs])
    /\ copied' = TRUE
    /\ readFreed' = TRUE
    /\ Crash
    /\ UNCHANGED <<heap, pb, wImpl, wLhs, wRhs, pOrig, doubleFree, freedLog,
                   heapAtCall, pbAtCall, calls, tempPb>>
    /\ Item11Frame

\* delete pOrig;
DeleteOrig ==
    /\ AtStmt("deleteOrig")
    /\ Delete(pOrig)
    /\ UNCHANGED <<pb, wImpl, wLhs, wRhs, pOrig, readFreed, copied, heapAtCall,
                   pbAtCall, calls, tempPb>>
    /\ Item11Frame

\* Widget temp(rhs): the copy constructor gives temp a Bitmap of its own,
\* temp.pb = new Bitmap(*rhs.pb)
TempCopy ==
    /\ AtStmt("copyTemp")
    /\ \E a \in {x \in Addrs : ~IsLive(heap, x)}, v \in SourceValues(pb[wRhs]) :
          /\ heap' = [heap EXCEPT ![a] = Live(v)]
          /\ tempPb' = a
    /\ copied' = TRUE
    /\ readFreed' = (readFreed \/ ~IsLive(heap, pb[wRhs]))
    /\ Proceed
    /\ UNCHANGED <<pb, wImpl, wLhs, wRhs, pOrig, doubleFree, freedLog, heapAtCall,
                   pbAtCall, calls>>
    /\ Item11Frame

\* Widget temp(rhs) throws (operator new, or the copy constructor of Bitmap):
\* temp does not come to exist
TempCopyThrows ==
    /\ AtStmt("copyTemp")
    /\ \E inCopy \in BOOLEAN :
          /\ copied' = (copied \/ inCopy)
          /\ readFreed' = (readFreed \/ (inCopy /\ ~IsLive(heap, pb[wRhs])))
    /\ Throw
    /\ UNCHANGED <<heap, pb, wImpl, wLhs, wRhs, pOrig, tempPb, doubleFree, freedLog,
                   heapAtCall, pbAtCall, calls>>
    /\ Item11Frame

\* Widget temp(rhs) where *rhs.pb has been deleted: the read may kill the
\* process
TempCopyCrashes ==
    /\ AtStmt("copyTemp")
    /\ ~IsLive(heap, pb[wRhs])
    /\ copied' = TRUE
    /\ readFreed' = TRUE
    /\ Crash
    /\ UNCHANGED <<heap, pb, wImpl, wLhs, wRhs, pOrig, tempPb, doubleFree, freedLog,
                   heapAtCall, pbAtCall, calls>>
    /\ Item11Frame

\* a swap that only takes: pb = temp.pb, temp.pb as it was
SwapOneWay ==
    /\ AtStmt("swap")
    /\ pb' = [pb EXCEPT ![wLhs] = tempPb]
    /\ Proceed
    /\ UNCHANGED <<heap, tempPb, wImpl, wLhs, wRhs, pOrig, readFreed, copied,
                   doubleFree, freedLog, heapAtCall, pbAtCall, calls>>
    /\ Item11Frame

\* swap(temp): std::swap(pb, temp.pb), the two pointers change places
Swap ==
    /\ AtStmt("swap")
    /\ pb' = [pb EXCEPT ![wLhs] = tempPb]
    /\ tempPb' = pb[wLhs]
    /\ Proceed
    /\ UNCHANGED <<heap, wImpl, wLhs, wRhs, pOrig, readFreed, copied, doubleFree,
                   freedLog, heapAtCall, pbAtCall, calls>>
    /\ Item11Frame

\* the closing brace of operator=: temp is destroyed, which deletes temp.pb
DestroyTemp ==
    /\ AtStmt("destroyTemp")
    /\ Delete(tempPb)
    /\ tempPb' = 0
    /\ UNCHANGED <<pb, wImpl, wLhs, wRhs, pOrig, readFreed, copied, heapAtCall,
                   pbAtCall, calls>>
    /\ Item11Frame

Item11Next ==
    \/ \E impl \in Impls, l \in Widgets, r \in Widgets : Call(impl, l, r)
    \/ TempCopy
    \/ TempCopyThrows
    \/ TempCopyCrashes
    \/ Swap
    \/ DestroyTemp
    \/ IdentityTest
    \/ DeletePb
    \/ SaveOrig
    \/ NewBitmap
    \/ NewThrows
    \/ NewCrashes
    \/ DeleteOrig

-----------------------------------------------------------------------------
(* Item 7: delete through a base class pointer (src/doc/item07.md) *)

Blocks == 1..NumBlocks

Item07Frame ==
    UNCHANGED <<makeVars, item01Vars, item11Vars, item09Vars, item10Vars, item04Vars, item02Vars>>

\* no object exists; the class TimeKeeper is the one of the first example
\* (~TimeKeeper() {}) or the one of the solution (virtual ~TimeKeeper() {})
Item07Init ==
    /\ virt07 \in BOOLEAN
    /\ heap07 = [b \in Blocks |-> "free"]
    /\ dataOf = [b \in Blocks |-> 0]
    /\ ptk = 0
    /\ pc07 = "idle"
    /\ log07 = <<>>
    /\ n07 = 0

\* TimeKeeper* ptk = getTimeKeeper(): new AtomicClock() takes a block for
\* the object, runs TimeKeeper() and then AtomicClock(), whose data = new
\* int[1000] takes a second block
GetTimeKeeper ==
    /\ pc07 = "idle"
    /\ n07 < MaxClocks
    /\ \E a \in Blocks, d \in Blocks :
          /\ a # d
          /\ heap07[a] = "free"
          /\ heap07[d] = "free"
          /\ heap07' = [heap07 EXCEPT ![a] = "AtomicClock", ![d] = "int[1000]"]
          /\ dataOf' = [dataOf EXCEPT ![a] = d]
          /\ ptk' = a
    /\ pc07' = "use"
    /\ log07' = <<>>
    /\ n07' = n07 + 1
    /\ UNCHANGED virt07
    /\ Item07Frame

\* a delete ptk that always starts with the destructor of the object's class
DeletePtkDynamic ==
    /\ pc07 = "use"
    /\ pc07' = "~AtomicClock"
    /\ UNCHANGED <<virt07, heap07, dataOf, ptk, log07, n07>>
    /\ Item07Frame

\* a delete ptk that always starts with the destructor of the static type
DeletePtkStatic ==
    /\ pc07 = "use"
    /\ pc07' = "~TimeKeeper"
    /\ UNCHANGED <<virt07, heap07, dataOf, ptk, log07, n07>>
    /\ Item07Frame

\* delete ptk: with a virtual destructor the destructor of the object's own
\* class is called; without, the behaviour is undefined: the destructor of
\* the pointer's type is called, or the process is killed
DeletePtk ==
    /\ pc07 = "use"
    /\ IF virt07
          THEN pc07' = "~AtomicClock"
          ELSE pc07' \in {"~TimeKeeper", "crashed"}
    /\ UNCHANGED <<virt07, heap07, dataOf, ptk, log07, n07>>
    /\ Item07Frame

\* ~AtomicClock() { delete[] data; }, then on to the base class destructor
DtorAtomicClock ==
    /\ pc07 = "~AtomicClock"
    /\ heap07' = [heap07 EXCEPT ![dataOf[ptk]] = "free"]
    /\ log07' = log07 \o <<"~AtomicClock", "delete[] data">>
    /\ pc07' = "~TimeKeeper"
    /\ UNCHANGED <<virt07, dataOf, ptk, n07>>
    /\ Item07Frame

\* ~TimeKeeper() {}
DtorTimeKeeper ==
    /\ pc07 = "~TimeKeeper"
    /\ log07' = Append(log07, "~TimeKeeper")
    /\ pc07' = "release"
    /\ UNCHANGED <<virt07, heap07, dataOf, ptk, n07>>
    /\ Item07Frame

\* the memory of the object is given back and its member data is gone; ptk
\* keeps the address. Without the virtual destructor the deallocation is
\* told the size of a TimeKeeper, which may kill the process.
ReleaseObject ==
    /\ pc07 = "release"
    /\ \/ /\ heap07' = [heap07 EXCEPT ![ptk] = "free"]
          /\ dataOf' = [dataOf EXCEPT ![ptk] = 0]
          /\ log07' = Append(log07, "release")
          /\ pc07' = "idle"
       \/ /\ ~virt07
          /\ pc07' = "crashed"
          /\ UNCHANGED <<heap07, dataOf, log07>>
    /\ UNCHANGED <<virt07, ptk, n07>>
    /\ Item07Frame

Item07Next ==
    \/ GetTimeKeeper
    \/ DeletePtk
    \/ DtorAtomicClock
    \/ DtorTimeKeeper
    \/ ReleaseObject

-----------------------------------------------------------------------------
(* Item 9: virtual calls in constructors and destructors (src/doc/item09.md) *)

Derived09 == {"BuyTransaction", "SellTransaction"}

Item09Frame ==
    UNCHANGED <<makeVars, item01Vars, item11Vars, item07Vars, item10Vars, item04Vars, item02Vars>>

\* the class running a constructor or destructor at a position of the program
Running09(p, c) ==
    CASE p \in {"TransactionCtor", "TransactionDtor"} -> "Transaction"
      [] p \in {"DerivedCtor", "DerivedDtor"} -> c
      [] OTHER -> "none"

\* what a logTransaction prints
LogLine(ex, c) ==
    CASE c = "Transaction" -> "Transaction::logTransaction()"
      [] c = "BuyTransaction" /\ ex = "dtor" ->
            "BuyTransaction::logTransaction() - price: 100"
      [] c = "BuyTransaction" -> "Buy transaction logged"
      [] OTHER -> "Sell transaction logged"

\* the three Transaction classes of the note: the one whose destructor calls
\* logTransaction (with constructors and destructors that print), the one
\* whose constructor calls it, and the one whose constructor calls init();
\* logTransaction is pure virtual or an ordinary virtual function
Item09Init ==
    /\ ex09 \in {"dtor", "ctor", "init"}
    /\ pure09 \in BOOLEAN
    /\ cls09 = "none"
    /\ pc09 = "build"
    /\ ret09 = "none"
    /\ vptr09 = "none"
    /\ part09 = "none"
    /\ out09 = <<>>
    /\ calls09 = <<>>
    /\ objs09 = 0

\* the build: a constructor or destructor calling a pure virtual function by
\* name is a call of Transaction::logTransaction, which has no definition
Link09 ==
    /\ pc09 = "build"
    /\ pc09' = IF pure09 /\ ex09 \in {"ctor", "dtor"} THEN "linkError" ELSE "main"
    /\ UNCHANGED <<ex09, pure09, cls09, ret09, vptr09, part09, out09, calls09, objs09>>
    /\ Item09Frame

\* BuyTransaction b; the base class constructor comes first and the vptr
\* points to the vtable of Transaction
Declare09(c) ==
    /\ pc09 = "main"
    /\ objs09 < MaxObjects09
    /\ ex09 = "dtor" => c = "BuyTransaction"
    /\ cls09' = c
    /\ vptr09' = "Transaction"
    /\ part09' = "unconstructed"
    /\ pc09' = "TransactionCtor"
    /\ objs09' = objs09 + 1
    /\ UNCHANGED <<ex09, pure09, ret09, out09, calls09>>
    /\ Item09Frame

\* Transaction::Transaction(): prints, calls logTransaction(), or calls init()
TransactionCtor09 ==
    /\ pc09 = "TransactionCtor"
    /\ CASE ex09 = "dtor" ->
              /\ out09' = Append(out09, "Transaction constructor")
              /\ pc09' = "DerivedCtor"
              /\ ret09' = ret09
         [] ex09 = "ctor" ->
              /\ pc09' = "logTransaction"
              /\ ret09' = "TransactionCtor"
              /\ out09' = out09
         [] OTHER ->
              /\ pc09' = "init"
              /\ ret09' = "TransactionCtor"
              /\ out09' = out09
    /\ UNCHANGED <<ex09, pure09, cls09, vptr09, part09, calls09, objs09>>
    /\ Item09Frame

\* void init() { logTransaction(); }
Init09 ==
    /\ pc09 = "init"
    /\ pc09' = "logTransaction"
    /\ UNCHANGED <<ex09, pure09, cls09, ret09, vptr09, part09, out09, calls09, objs09>>
    /\ Item09Frame

\* a dispatch that goes to the class of the complete object
DispatchMostDerived(v, c) == c

\* a virtual call goes through the vptr (v) of the object, whose complete
\* class is c
Dispatch09(v, c) == v

\* logTransaction(): the call is resolved, and the function runs: a pure
\* virtual function ends the process, the others print their line and return
\* to the constructor or destructor, which ends
LogTransaction09 ==
    /\ pc09 = "logTransaction"
    /\ LET f == Dispatch09(vptr09, cls09) IN
          /\ calls09' = Append(calls09, [fn |-> f,
                                          during |-> Running09(ret09, cls09),
                                          part |-> part09])
          /\ IF f = "Transaction" /\ pure09
                THEN /\ pc09' = "aborted"
                     /\ out09' = out09
                ELSE /\ out09' = Append(out09, LogLine(ex09, f))
                     /\ pc09' = IF ret09 = "TransactionCtor" THEN "DerivedCtor"
                                                              ELSE "main"
    /\ UNCHANGED <<ex09, pure09, cls09, ret09, vptr09, part09, objs09>>
    /\ Item09Frame

\* the constructor of the derived class: the vptr is set to its vtable, the
\* members are initialized (price_(100.0)), the body runs
DerivedCtor09 ==
    /\ pc09 = "DerivedCtor"
    /\ vptr09' = cls09
    /\ part09' = "constructed"
    /\ out09' = IF ex09 = "dtor" THEN Append(out09, "BuyTransaction constructor")
                                 ELSE out09
    /\ pc09' = "alive"
    /\ UNCHANGED <<ex09, pure09, cls09, ret09, calls09, objs09>>
    /\ Item09Frame

\* } : the destructor of the derived class runs its body, the members are
\* destroyed, and the base class destructor starts with the vptr back at the
\* vtable of Transaction
DerivedDtor09 ==
    /\ pc09 = "alive"
    /\ out09' = IF ex09 = "dtor" THEN Append(out09, "BuyTransaction destructor")
                                 ELSE out09
    /\ part09' = "destroyed"
    /\ vptr09' = "Transaction"
    /\ pc09' = "TransactionDtor"
    /\ UNCHANGED <<ex09, pure09, cls09, ret09, calls09, objs09>>
    /\ Item09Frame

\* Transaction::~Transaction(): prints and calls logTransaction() in the
\* destructor example, does nothing in the others
TransactionDtor09 ==
    /\ pc09 = "TransactionDtor"
    /\ IF ex09 = "dtor"
          THEN /\ out09' = Append(out09, "Transaction destructor")
               /\ pc09' = "logTransaction"
               /\ ret09' = "TransactionDtor"
          ELSE /\ pc09' = "main"
               /\ UNCHANGED <<out09, ret09>>
    /\ UNCHANGED <<ex09, pure09, cls09, vptr09, part09, calls09, objs09>>
    /\ Item09Frame

Item09Next ==
    \/ Link09
    \/ \E c \in Derived09 : Declare09(c)
    \/ TransactionCtor09
    \/ Init09
    \/ LogTransaction09
    \/ DerivedCtor09
    \/ DerivedDtor09
    \/ TransactionDtor09

-----------------------------------------------------------------------------
(* Item 10: operator= returns a reference to *this (src/doc/item10.md) *)

\* Widget w1, w2, w3;
Widgets10 == 1..3

Addrs10 == 1..NumAddrs10

Values10 == 0..MaxValue10

Item10Frame ==
    UNCHANGED <<makeVars, item01Vars, item11Vars, item07Vars, item09Vars,
                item04Vars, item02Vars>>

\* the expressions of the note: wl = wr (also w = w), and w1 = w2 = w3
Exprs10 == {<<l, r>> : l \in Widgets10, r \in Widgets10} \cup {<<1, 2, 3>>}

\* an operator= that returns a reference to its right operand
OperatorAssignReturnsRhs(mem, this, rhs) ==
    [mem |-> [mem EXCEPT ![this] = mem[rhs]], ret |-> rhs]

\* Widget& operator=(const Widget& rhs) { this->value = rhs.value;
\* return *this; } on the Widget at address this, rhs bound to the Widget at
\* address rhs
OperatorAssign(mem, this, rhs) ==
    [mem |-> [mem EXCEPT ![this] = mem[rhs]], ret |-> this]

\* a grouping from the left: (w1 = w2) = w3
NextOperandsLeft(e, n) ==
    [this |-> 1, rhs |-> n + 2]

\* assignment groups from the right, w1 = (w2 = w3): the n+1st operator= to
\* run has as left operand the operand before the ones already assigned, and
\* as right operand the reference returned so far (the last operand at first)
NextOperands(e, n) ==
    [this |-> Len(e) - 1 - n, rhs |-> 0]

\* the three Widgets are at different addresses, their values are whatever
\* is there (Widget w1, w2, w3; leaves value uninitialized)
Item10Init ==
    /\ addr10 \in {f \in [Widgets10 -> Addrs10] :
                      \A v, w \in Widgets10 : v # w => f[v] # f[w]}
    /\ mem10 \in [Addrs10 -> Values10]
    /\ mem10AtStart = mem10
    /\ expr10 \in Exprs10
    /\ done10 = 0
    /\ ref10 = addr10[expr10[Len(expr10)]]
    /\ calls10 = <<>>

\* the next operator= of the expression runs
Assign10 ==
    /\ done10 < Len(expr10) - 1
    /\ LET ops == NextOperands(expr10, done10)
           this == addr10[expr10[ops.this]]
           rhs == IF ops.rhs = 0 THEN ref10 ELSE addr10[expr10[ops.rhs]]
           r == OperatorAssign(mem10, this, rhs)
       IN  /\ mem10' = r.mem
           /\ ref10' = r.ret
           /\ calls10' = Append(calls10, [this |-> this, rhs |-> rhs, ret |-> r.ret])
    /\ done10' = done10 + 1
    /\ UNCHANGED <<addr10, mem10AtStart, expr10>>
    /\ Item10Frame

Item10Next == Assign10

-----------------------------------------------------------------------------
(* Item 4: the function-local static of tfs() (src/unnamed/part_001) *)

Threads04 == 1..NumThreads04

Item04Frame ==
    UNCHANGED <<makeVars, item01Vars, item11Vars, item07Vars, item09Vars,
                item10Vars, item02Vars>>

\* an initialization that no language rule protects
ThreadSafeNever(std) == FALSE

\* from C++11 on the initialization of a local static is protected: a thread
\* that arrives while another one initializes waits
ThreadSafe(std) == std # "c++03"

\* nothing has called tfs(): fs is raw storage
Item04Init ==
    /\ std04 \in {"c++03", "c++17"}
    /\ guard04 = "uninit"
    /\ fs04 = "raw"
    /\ ctors04 = 0
    /\ pc04 = [t \in Threads04 |-> "idle"]
    /\ got04 = [t \in Threads04 |-> "none"]
    /\ n04 = [t \in Threads04 |-> 0]
    /\ waited04 = {}

\* a thread calls tfs()
CallTfs(t) ==
    /\ pc04[t] = "idle"
    /\ n04[t] < MaxTfsCalls
    /\ pc04' = [pc04 EXCEPT ![t] = "static"]
    /\ n04' = [n04 EXCEPT ![t] = @ + 1]
    /\ UNCHANGED <<std04, guard04, fs04, ctors04, got04, waited04>>
    /\ Item04Frame

\* static FileSystem fs; : initialized already, or this thread is to
\* initialize it, or (protected) another thread is at it and this one waits
ReachStatic(t) ==
    /\ pc04[t] = "static"
    /\ CASE guard04 = "done" ->
              /\ pc04' = [pc04 EXCEPT ![t] = "return"]
              /\ UNCHANGED <<guard04, waited04>>
         [] guard04 = "uninit" ->
              /\ pc04' = [pc04 EXCEPT ![t] = "construct"]
              /\ guard04' = IF ThreadSafe(std04) THEN "initializing" ELSE guard04
              /\ waited04' = waited04
         [] OTHER ->
              /\ pc04' = [pc04 EXCEPT ![t] = "wait"]
              /\ guard04' = guard04
              /\ waited04' = waited04 \cup {t}
    /\ UNCHANGED <<std04, fs04, ctors04, got04, n04>>
    /\ Item04Frame

\* the constructor of FileSystem starts on the storage of fs
ConstructBegin(t) ==
    /\ pc04[t] = "construct"
    /\ fs04' = "constructing"
    /\ pc04' = [pc04 EXCEPT ![t] = "constructing"]
    /\ UNCHANGED <<std04, guard04, ctors04, got04, n04, waited04>>
    /\ Item04Frame

\* the constructor of FileSystem ends; the initialization is not yet marked
ConstructEnd(t) ==
    /\ pc04[t] = "constructing"
    /\ fs04' = "constructed"
    /\ ctors04' = ctors04 + 1
    /\ pc04' = [pc04 EXCEPT ![t] = "release"]
    /\ UNCHANGED <<std04, guard04, got04, n04, waited04>>
    /\ Item04Frame

\* the thread that ran the constructor marks the initialization done, a step
\* of its own after the constructor has returned
SetGuard(t) ==
    /\ pc04[t] = "release"
    /\ guard04' = "done"
    /\ pc04' = [pc04 EXCEPT ![t] = "return"]
    /\ UNCHANGED <<std04, fs04, ctors04, got04, n04, waited04>>
    /\ Item04Frame

\* a waiting thread goes on once the initialization is done
WaitDone(t) ==
    /\ pc04[t] = "wait"
    /\ guard04 = "done"
    /\ pc04' = [pc04 EXCEPT ![t] = "return"]
    /\ UNCHANGED <<std04, guard04, fs04, ctors04, got04, n04, waited04>>
    /\ Item04Frame

\* return fs; : the caller holds a reference to fs as it is now
ReturnFs(t) ==
    /\ pc04[t] = "return"
    /\ got04' = [got04 EXCEPT ![t] = fs04]
    /\ pc04' = [pc04 EXCEPT ![t] = "idle"]
    /\ UNCHANGED <<std04, guard04, fs04, ctors04, n04, waited04>>
    /\ Item04Frame

Item04Next ==
    \E t \in Threads04 :
        \/ CallTfs(t)
        \/ ReachStatic(t)
        \/ ConstructBegin(t)
        \/ ConstructEnd(t)
        \/ SetGuard(t)
        \/ WaitDone(t)
        \/ ReturnFs(t)

-----------------------------------------------------------------------------
(* Item 2: the function macro and the inline template (src/doc/item02.md) *)

Item02Frame ==
    UNCHANGED <<makeVars, item01Vars, item11Vars, item07Vars, item09Vars,
                item10Vars, item04Vars>>

\* the argument expressions of the note
FirstArgs02 == {"++a", "a"}
SecondArgs02 == {"b", "b+10", "++b"}

\* one evaluation of a first argument when a is x: the value and the new a
Eval1(e, x) ==
    IF e = "++a" THEN [v |-> x + 1, a |-> x + 1] ELSE [v |-> x, a |-> x]

\* one evaluation of a second argument when b is y: the value and the new b
Eval2(e, y) ==
    CASE e = "b+10" -> [v |-> y + Plus02, b |-> y]
      [] e = "++b" -> [v |-> y + 1, b |-> y + 1]
      [] OTHER -> [v |-> y, b |-> y]

\* a macro that evaluates each argument once, as a function would
MacroCallSingleEval(e1, e2, x, y) ==
    LET first == Eval1(e1, x)
        second == Eval2(e2, y)
    IN  [passed |-> IF first.v > second.v THEN first.v ELSE second.v,
         a |-> first.a, b |-> second.b, evals1 |-> 1, evals2 |-> 1]

\* CALL_WITH_MAX(e1, e2) is the text f((e1) > (e2) ? (e1) : (e2)): both
\* arguments are evaluated for the comparison, and the chosen one is
\* evaluated again for f
MacroCall(e1, e2, x, y) ==
    LET first == Eval1(e1, x)
        second == Eval2(e2, y)
        again1 == Eval1(e1, first.a)
        again2 == Eval2(e2, second.b)
    IN  IF first.v > second.v
          THEN [passed |-> again1.v, a |-> again1.a, b |-> second.b,
                evals1 |-> 2, evals2 |-> 1]
          ELSE [passed |-> again2.v, a |-> first.a, b |-> again2.b,
                evals1 |-> 1, evals2 |-> 2]

\* callWithMax(e1, e2): the arguments are evaluated once to bind the
\* parameters a and b, then f(a > b ? a : b)
CallWithMax(e1, e2, x, y) ==
    LET first == Eval1(e1, x)
        second == Eval2(e2, y)
    IN  [passed |-> IF first.v > second.v THEN first.v ELSE second.v,
         a |-> first.a, b |-> second.b, evals1 |-> 1, evals2 |-> 1]

Item02Init ==
    /\ a02 \in StartA02..(StartA02 + SpanA02)
    /\ b02 \in StartB02..(StartB02 + SpanB02)
    /\ log02 = <<>>

\* the entry of the log for a call with result r
Entry02(how, e1, e2, r) ==
    [how |-> how, e1 |-> e1, e2 |-> e2, aBefore |-> a02, b |-> b02,
     passed |-> r.passed, aAfter |-> r.a, bAfter |-> r.b,
     evals1 |-> r.evals1, evals2 |-> r.evals2]

\* CALL_WITH_MAX(e1, e2);
UseMacro(e1, e2) ==
    /\ Len(log02) < MaxCalls02
    /\ LET r == MacroCall(e1, e2, a02, b02) IN
          /\ a02' = r.a
          /\ b02' = r.b
          /\ log02' = Append(log02, Entry02("macro", e1, e2, r))
    /\ Item02Frame

\* callWithMax(e1, e2);
UseTemplate(e1, e2) ==
    /\ Len(log02) < MaxCalls02
    /\ LET r == CallWithMax(e1, e2, a02, b02) IN
          /\ a02' = r.a
          /\ b02' = r.b
          /\ log02' = Append(log02, Entry02("template", e1, e2, r))
    /\ Item02Frame

Item02Next ==
    \E e1 \in FirstArgs02, e2 \in SecondArgs02 :
        \/ UseMacro(e1, e2)
        \/ UseTemplate(e1, e2)

-----------------------------------------------------------------------------
vars == <<makeVars, item01Vars, noteVars>>

\* the examples of the notes at rest, with one content for every Bitmap
Item11Quiet ==
    /\ Item11Init
    /\ \A a \in Addrs : heap[a].val <= 1

Item07Quiet == Item07Init /\ virt07

Item09Quiet == Item09Init /\ ex09 = "dtor" /\ ~pure09

Item10Quiet ==
    /\ Item10Init
    /\ addr10 = [w \in Widgets10 |-> w]
    /\ mem10 = [a \in Addrs10 |-> 0]
    /\ expr10 = <<1, 2, 3>>

Item04Quiet == Item04Init /\ std04 = "c++17"

Item02Quiet == Item02Init /\ a02 = StartA02 /\ b02 = StartB02

NotesQuiet ==
    /\ Item11Quiet
    /\ Item07Quiet
    /\ Item09Quiet
    /\ Item10Quiet
    /\ Item04Quiet
    /\ Item02Quiet

\* the repository as it is: src holds the Item 1 example and nothing is built
MakeQuiet ==
    /\ MakeInit
    /\ srcDir
    /\ srcFiles = {Item01Path}

Init == MakeInit /\ Item01Init /\ NotesQuiet

Next == MakeNext \/ Item01Next

Spec == Init /\ [][Next]_vars

InitItem11 == MakeQuiet /\ Item01Init /\ Item11Init /\ Item07Quiet /\ Item09Quiet
              /\ Item10Quiet /\ Item04Quiet /\ Item02Quiet

SpecItem11 == InitItem11 /\ [][Item11Next]_vars

InitItem07 == MakeQuiet /\ Item01Init /\ Item11Quiet /\ Item07Init /\ Item09Quiet
              /\ Item10Quiet /\ Item04Quiet /\ Item02Quiet

SpecItem07 == InitItem07 /\ [][Item07Next]_vars

InitItem09 == MakeQuiet /\ Item01Init /\ Item11Quiet /\ Item07Quiet /\ Item09Init
              /\ Item10Quiet /\ Item04Quiet /\ Item02Quiet

SpecItem09 == InitItem09 /\ [][Item09Next]_vars

InitItem10 ==
    /\ MakeQuiet /\ Item01Init /\ Item11Quiet /\ Item07Quiet /\ Item09Quiet
    /\ Item10Init /\ Item04Quiet /\ Item02Quiet

SpecItem10 == InitItem10 /\ [][Item10Next]_vars

InitItem04 ==
    /\ MakeQuiet /\ Item01Init /\ Item11Quiet /\ Item07Quiet /\ Item09Quiet
    /\ Item10Quiet /\ Item04Init /\ Item02Quiet

SpecItem04 == InitItem04 /\ [][Item04Next]_vars

InitItem02 ==
    /\ MakeQuiet /\ Item01Init /\ Item11Quiet /\ Item07Quiet /\ Item09Quiet
    /\ Item10Quiet /\ Item04Quiet /\ Item02Init

SpecItem02 == InitItem02 /\ [][Item02Next]_vars

\* a process that can take a step is scheduled: the child runs to its end, and
\* make runs the next recipe line
SpecFair == Spec /\ WF_vars(Item01Next) /\ WF_vars(DoExecReap)


-----------------------------------------------------------------------------
(* Properties of the Makefile wrapper *)

Exited(t) == mkState = "exited" /\ target = t

IsPrefix(a, b) == Len(a) <= Len(b) /\ SubSeq(b, 1, Len(a)) = a

StepOps == [j \in 1..Len(steps) |-> steps[j].op]

\* C1: make run and make build without FILE (or with FILE empty) print the
\* error line and the usage line, run nothing else, and end with a status
\* that is not 0.
C1_UnsetFileFails ==
    \A t \in {"run", "build"} :
        (Exited(t) /\ FILE = <<>>) =>
            /\ exitStatus # 0
            /\ Len(console) >= 2
            /\ console[1] = "Error: FILE is not specified"
            /\ console[2] = "Usage: make " \o t \o " FILE=src/ch01/item01.cpp"
            /\ StepOps = <<"echo", "echo", "exit">>

C1_Witness ==
    /\ Exited("build")
    /\ FILE = <<>>
    /\ Len(console) = 3

\* C2 as claimed: with FILE set, make run / make build ends with the status
\* of the last step it ran, the compiler or the binary.
C2_ExitStatusIsStepStatus ==
    \A t \in {"run", "build"} :
        (Exited(t) /\ FILE # <<>>) => exitStatus = steps[Len(steps)].status

\* C2 amended: with FILE set, make run / make build ends with 0 when every
\* step, the compiler and the binary included, returned 0, and with 2 when a
\* step, the compiler or the binary, returned a status k that is not 0 or
\* the binary was killed by a signal; the terminal then ends with make's
\* "Error k", or for a killed binary the name of the signal, with
\* " (core dumped)" when there is a core file, written after what the binary
\* left on its last line.
C2_ExitStatusIsZeroOrTwo ==
    \A t \in {"run", "build"} :
        (Exited(t) /\ FILE # <<>>) =>
            LET last == steps[Len(steps)]
            IN  /\ \A j \in 1..(Len(steps) - 1) : steps[j].status = 0
                /\ last.status = 0 =>
                       /\ exitStatus = 0
                       /\ Len(steps) = Len(Recipe(t, FILE))
                /\ last.status # 0 =>
                       /\ exitStatus = 2
                       /\ LET head == "make: *** [Makefile:" \o ToString(last.line)
                                           \o ": " \o t \o "] "
                              line == console[Len(console)]
                          IN  \E left \in IF last.op = "exec" THEN {"", SomeText}
                                                              ELSE {""} :
                                \/ line = left \o head \o "Error "
                                               \o ToString(last.status)
                                \/ /\ last.op = "exec"
                                   /\ last.status - 128 \in Signals
                                   /\ \/ line = left \o head
                                                  \o SignalName(last.status - 128)
                                      \/ /\ last.status - 128 \in CoreSignals
                                         /\ line = left \o head
                                                    \o SignalName(last.status - 128)
                                                    \o " (core dumped)"

\* make run ended after its binary returned 3
C2_Witness ==
    /\ Exited("run")
    /\ FILE # <<>>
    /\ steps[Len(steps)].op = "exec"
    /\ steps[Len(steps)].status = 3

\* C3: make run FILE=<path> runs mkdir, the compiler, the banner and the
\* binary in this order, and the binary runs only after the compiler of the
\* same invocation returned 0, so what runs is the program of FILE and never
\* a build/a.out left by an earlier invocation.
C3_RunOrder ==
    (target = "run" /\ FILE # <<>>) =>
        /\ IsPrefix(StepOps, <<"mkdir", "compile", "echo", "exec">>)
        /\ (mkState = "waiting" \/ pc01 # "idle") => Len(steps) = 4
        /\ Len(steps) = 4 =>
              /\ steps[2].status = 0
              /\ aout = ProgramOf(FILE)
              /\ \E j \in 1..Len(console) :
                    console[j] = "--- Running " \o Str(FILE) \o " ---"
        /\ (Len(steps) >= 2 /\ steps[2].status # 0) =>
              /\ mkState = "exited"
              /\ Len(steps) = 2

\* make run ended at a failed compile while an older build/a.out exists
C3_Witness ==
    /\ Exited("run")
    /\ FILE # <<>>
    /\ Len(steps) = 2
    /\ steps[2].status # 0
    /\ aout # "none"

\* C4: make build never runs build/a.out, and prints "Built: build/a.out" only
\* after the compiler returned 0.
C4_BuildCompilesOnly ==
    target = "build" =>
        /\ \A j \in 1..Len(steps) : steps[j].op # "exec"
        /\ mkState # "waiting"
        /\ pc01 = "idle"
        /\ (\E j \in 1..Len(console) : console[j] = "Built: build/a.out") =>
              \E j \in 1..Len(steps) : steps[j].op = "compile" /\ steps[j].status = 0

\* make build ended with a binary in place
C4_Witness ==
    /\ Exited("build")
    /\ exitStatus = 0
    /\ aout = "item01"
    /\ console[Len(console)] = "Built: build/a.out"

\* C5: after make clean, whatever came before, there is no build directory
\* and no build/a.out; clean succeeds also when there was none, and prints the
\* same two lines.
C5_CleanRemovesBuild ==
    Exited("clean") =>
        /\ ~buildDir
        /\ aout = "none"
        /\ exitStatus = 0
        /\ console = <<"rm -rf build", "Cleaned build directory">>

\* make clean ended after removing a build directory that held a binary
C5_Witness ==
    /\ Exited("clean")
    /\ removed = {"build", "build/a.out"}

\* the path ends in .cpp
EndsInCpp(p) ==
    /\ Len(p) >= 4
    /\ p[Len(p) - 3] = "." /\ p[Len(p) - 2] = "c"
    /\ p[Len(p) - 1] = "p" /\ p[Len(p)] = "p"

\* C6: make list prints the header and then the files below src whose name
\* ends in .cpp, each once, in ascending order, and changes neither the files
\* nor the build state.
C6_ListPrintsSortedCppFiles ==
    /\ [](Exited("list") =>
            LET want == {p \in srcFiles : EndsInCpp(p)}
            IN  /\ exitStatus = 0
                /\ Len(console) = 1 + Cardinality(want)
                /\ console[1] = "Source files:"
                /\ \E q \in Enumerations(want) :
                      /\ \A j \in 1..Len(q) : console[j + 1] = Str(q[j])
                      /\ \A j \in 1..(Len(q) - 1) : PathLess(q[j], q[j + 1]))
    /\ [][target' = "list" => UNCHANGED <<srcDir, srcFiles, buildDir, aout>>]_vars

\* make list ended having listed three files
C6_Witness ==
    /\ Exited("list")
    /\ Len(console) = 4
    /\ buildDir

-----------------------------------------------------------------------------
(* Properties of the Item 1 example *)

Item01Expected ==
    << "=== Item 1: C++ as a federation of languages ===",
       "",
       "[1] C style:",
       "C style sum: 15",
       "",
       "[2] Object-Oriented C++:",
       "Drawing a circle",
       "",
       "[3] Template C++:",
       "add(3, 4) = 7",
       "add(3.5, 4.5) = 8",
       "",
       "[4] STL:",
       "STL sorted: 1 2 5 8 9 " >>

\* C7: the Item 1 example prints the title, then sections [1] to [4] with
\* "C style sum: 15", "Drawing a circle", "add(3, 4) = 7", the add(3.5, 4.5)
\* line and "STL sorted: 1 2 5 8 9" (each number followed by a space), in this
\* order, and main returns 0.
C7_Item01Output ==
    /\ IsPrefix(out01, Item01Expected)
    /\ pc01 = "exited" => (out01 = Item01Expected /\ ret01 = 0)
    /\ ret01 \in {-1, 0}

C7_Witness ==
    /\ pc01 = "exited"
    /\ Len(out01) = 14

\* C8: every run of the Item 1 example ends: the summing loop runs its body
\* five times with the index in 0..4, the range-for visits each of the five
\* elements once, and main returns 0.
C8_Item01Terminates ==
    /\ []((pc01 = "c_loop" /\ CStyleCond(i01)) => i01 \in 0..4)
    /\ [](pc01 = "main61" => (iters01 = 5 /\ i01 = 5))
    /\ [](pc01 = "main76" => visited01 = <<0, 1, 2, 3, 4>>)
    /\ (pc01 = "main") ~> (pc01 = "exited" /\ ret01 = 0)

C8_Witness ==
    /\ pc01 = "exited"
    /\ iters01 = 5
    /\ visited01 = <<0, 1, 2, 3, 4>>


-----------------------------------------------------------------------------
(* Properties of the operator= of Item 11 *)

\* when the call began, both operands pointed to a live Bitmap, and two
\* distinct Widgets to two distinct Bitmaps
ValidAtCall ==
    /\ IsLive(heapAtCall, pbAtCall[wLhs])
    /\ IsLive(heapAtCall, pbAtCall[wRhs])
    /\ wLhs # wRhs => pbAtCall[wLhs] # pbAtCall[wRhs]

\* C9: in the first operator= of the note (delete pb; pb = new
\* Bitmap(*rhs.pb)), called on Widgets that own live Bitmaps, the copy, once
\* it runs, reads a Bitmap that the delete before it has freed when both
\* operands are the same Widget, and no freed Bitmap is read when they are
\* two Widgets.
C9_NaiveSelfAssignReadsFreed ==
    (wImpl = "naive" /\ ValidAtCall) =>
        /\ readFreed => wLhs = wRhs
        /\ copied => (readFreed <=> wLhs = wRhs)
        /\ (copied /\ wLhs = wRhs) => freedLog = <<pbAtCall[wRhs]>>

\* w = w with the first operator= has run its copy
C9_Witness ==
    /\ wImpl = "naive"
    /\ ValidAtCall
    /\ wLhs = wRhs
    /\ copied
    /\ readFreed
    /\ wResult = "returned"

\* C10: in the reordered operator= (pOrig = pb; pb = new Bitmap(*rhs.pb);
\* delete pOrig), when creating the new Bitmap throws, pb is what it was, the
\* Bitmap it points to is as it was (live when it was live), and nothing has
\* been freed.
C10_ReorderThrowLeavesWidget ==
    (wImpl \in {"reorder", "reorderIdentity"} /\ wResult = "threw") =>
        /\ pb = pbAtCall
        /\ heap = heapAtCall
        /\ freedLog = <<>>
        /\ ValidAtCall => IsLive(heap, pb[wLhs])

\* the reordered operator= has been left by an exception of new
C10_Witness ==
    /\ wImpl = "reorder"
    /\ wResult = "threw"
    /\ ValidAtCall
    /\ pOrig = pb[wLhs]

\* C11: in the reordered operator= (pOrig = pb; pb = new Bitmap(*rhs.pb);
\* delete pOrig) called as w = w on a Widget that owns a live Bitmap, no
\* freed Bitmap is ever read and nothing is freed twice; once the copy is
\* made and until the delete, the original is still live; after the return
\* w.pb points to another, live Bitmap with the content the original had,
\* and the original has been freed exactly once.
C11_ReorderSelfAssign ==
    (wImpl = "reorder" /\ wLhs = wRhs /\ ValidAtCall) =>
        /\ ~readFreed
        /\ ~doubleFree
        /\ (copied /\ freedLog = <<>>) => IsLive(heap, pbAtCall[wLhs])
        /\ wResult = "returned" =>
              /\ pb[wLhs] # pbAtCall[wLhs]
              /\ IsLive(heap, pb[wLhs])
              /\ heap[pb[wLhs]].val = heapAtCall[pbAtCall[wLhs]].val
              /\ freedLog = <<pbAtCall[wLhs]>>
              /\ ~IsLive(heap, pbAtCall[wLhs])

\* w = w with the reordered operator= has returned
C11_Witness ==
    /\ wImpl = "reorder"
    /\ wLhs = wRhs
    /\ ValidAtCall
    /\ wResult = "returned"
    /\ copied
    /\ Len(freedLog) = 1

\* C12: after w1 = w2 with copy and swap has returned, on Widgets that own
\* live Bitmaps, w1.pb points to a Bitmap that was not allocated at the call
\* (so neither w2's nor w1's old one), live, with the content of w2's Bitmap;
\* the Bitmap w1 had has been freed exactly once, by the destruction of temp;
\* w2 and its Bitmap are as they were; no freed Bitmap has been read. The
\* same holds when w1 and w2 are one Widget.
C12_CopySwapResult ==
    (wImpl = "copySwap" /\ ValidAtCall /\ wResult = "returned") =>
        /\ ~IsLive(heapAtCall, pb[wLhs])
        /\ pb[wLhs] # pbAtCall[wRhs]
        /\ IsLive(heap, pb[wLhs])
        /\ heap[pb[wLhs]].val = heapAtCall[pbAtCall[wRhs]].val
        /\ freedLog = <<pbAtCall[wLhs]>>
        /\ ~doubleFree
        /\ ~IsLive(heap, pbAtCall[wLhs])
        /\ tempPb = 0
        /\ ~readFreed
        /\ wLhs # wRhs =>
              /\ pb[wRhs] = pbAtCall[wRhs]
              /\ heap[pb[wRhs]] = heapAtCall[pb[wRhs]]

\* w1 = w2 with copy and swap has returned, for two Widgets
C12_Witness ==
    /\ wImpl = "copySwap"
    /\ ValidAtCall
    /\ wLhs # wRhs
    /\ wResult = "returned"
    /\ Len(freedLog) = 1

\* C13: in copy and swap, an exception leaves operator= only from Widget
\* temp(rhs), before temp exists, and then *this and the heap are what they
\* were at the call and nothing has been freed; the step that follows a
\* state at swap(temp) is never an exception or a crash, and it changes
\* nothing but the two pointers.
C13_CopySwapExceptionSafe ==
    /\ [](  (wImpl = "copySwap" /\ wResult = "threw") =>
              /\ tempPb = 0
              /\ pb = pbAtCall
              /\ heap = heapAtCall
              /\ freedLog = <<>>)
    /\ [][ (wImpl = "copySwap" /\ AtStmt("swap")) =>
              /\ wResult' \notin {"threw", "crashed"}
              /\ heap' = heap
              /\ freedLog' = freedLog
              /\ \A w \in Widgets : w # wLhs => pb'[w] = pb[w] ]_vars

\* Widget temp(rhs) of copy and swap has thrown
C13_Witness ==
    /\ wImpl = "copySwap"
    /\ ValidAtCall
    /\ wLhs # wRhs
    /\ wResult = "threw"

\* C20: in the operator= with the identity test (if (this == &rhs) return
\* *this; delete pb; pb = new Bitmap(*rhs.pb)), on Widgets that own live
\* Bitmaps: for two Widgets, when new throws, pb has not been assigned and
\* points to the Bitmap that the delete freed; for w = w the call returns,
\* never throws, frees nothing, allocates and copies nothing, and leaves the
\* Widget and the heap as they were.
C20_IdentityTestOnly ==
    (wImpl = "identity" /\ ValidAtCall) =>
        /\ (wLhs # wRhs /\ wResult = "threw") =>
              /\ pb = pbAtCall
              /\ ~IsLive(heap, pb[wLhs])
              /\ freedLog = <<pb[wLhs]>>
        /\ wLhs = wRhs =>
              /\ wResult \in {"running", "returned"}
              /\ pb = pbAtCall
              /\ heap = heapAtCall
              /\ freedLog = <<>>
              /\ ~copied

\* new has thrown in the operator= with the identity test, for two Widgets
C20_Witness ==
    /\ wImpl = "identity"
    /\ ValidAtCall
    /\ wLhs # wRhs
    /\ wResult = "threw"
    /\ Len(freedLog) = 1

\* delete ptk has returned
Deleted07 == pc07 = "idle" /\ log07 # <<>>

\* C14: with virtual ~TimeKeeper, delete ptk on an AtomicClock runs
\* ~AtomicClock (which frees data) first, then ~TimeKeeper, then gives back
\* the memory of the object, in this order and never ends in a crash; while
\* the base destructor runs data is freed and the object still allocated;
\* after the delete no block of the free store is allocated.
C14_VirtualDtorOrder ==
    virt07 =>
        /\ IsPrefix(log07, <<"~AtomicClock", "delete[] data", "~TimeKeeper",
                             "release">>)
        /\ pc07 # "crashed"
        /\ pc07 \in {"~TimeKeeper", "release"} =>
              /\ heap07[ptk] = "AtomicClock"
              /\ heap07[dataOf[ptk]] = "free"
        /\ Deleted07 =>
              /\ Len(log07) = 4
              /\ \A b \in Blocks : heap07[b] = "free" /\ dataOf[b] = 0

\* delete ptk has returned, with the virtual destructor
C14_Witness ==
    /\ virt07
    /\ Deleted07
    /\ n07 = 1
    /\ heap07[ptk] = "free"

\* C15: with the non-virtual ~TimeKeeper, delete ptk on an AtomicClock never
\* runs ~AtomicClock; when it returns it has run ~TimeKeeper only and given
\* back the object, every int[1000] ever allocated is still allocated, and
\* no member data and no ptk points to one.
C15_NonVirtualDtorLeaks ==
    ~virt07 =>
        /\ pc07 # "~AtomicClock"
        /\ \A i \in 1..Len(log07) : log07[i] \in {"~TimeKeeper", "release"}
        /\ Deleted07 =>
              /\ log07 = <<"~TimeKeeper", "release">>
              /\ heap07[ptk] = "free"
              /\ Cardinality({b \in Blocks : heap07[b] = "int[1000]"}) = n07
              /\ \A b \in Blocks : dataOf[b] = 0

\* delete ptk has returned, without the virtual destructor
C15_Witness ==
    /\ ~virt07
    /\ Deleted07
    /\ n07 = 1
    /\ \E b \in Blocks : heap07[b] = "int[1000]"

\* C16: in the destructor example, once one BuyTransaction has been created
\* and destroyed the output is the five lines Transaction constructor,
\* BuyTransaction constructor, BuyTransaction destructor, Transaction
\* destructor, Transaction::logTransaction(), and before that the output is
\* always a beginning of these five lines.
C16_DtorExampleOutput ==
    (ex09 = "dtor" /\ ~pure09 /\ objs09 <= 1) =>
        LET five == <<"Transaction constructor", "BuyTransaction constructor",
                      "BuyTransaction destructor", "Transaction destructor",
                      "Transaction::logTransaction()">>
        IN  /\ IsPrefix(out09, five)
            /\ pc09 \notin {"aborted", "linkError"}
            /\ (objs09 = 1 /\ pc09 = "main") => out09 = five

\* one BuyTransaction of the destructor example has been created and destroyed
C16_Witness ==
    /\ ex09 = "dtor"
    /\ ~pure09
    /\ objs09 = 1
    /\ pc09 = "main"
    /\ Len(out09) = 5

\* C17: every call of logTransaction made while a constructor or destructor
\* of Transaction runs, by name or through init(), is resolved to
\* Transaction::logTransaction; a logTransaction of a derived class is never
\* called while the members of the derived class are not yet constructed or
\* already destroyed.
C17_NoDescentToDerived ==
    \A i \in 1..Len(calls09) :
        /\ calls09[i].during = "Transaction" => calls09[i].fn = "Transaction"
        /\ calls09[i].fn \in Derived09 => calls09[i].part = "constructed"

\* logTransaction has been called through init() from the constructor of
\* Transaction, before the derived part exists
C17_Witness ==
    /\ ex09 = "init"
    /\ Len(calls09) > 0
    /\ calls09[1].during = "Transaction"
    /\ calls09[1].part = "unconstructed"
    /\ cls09 = "BuyTransaction"

\* C18: in w1 = w2 = w3 the first operator= to run is w2 = w3 and the second
\* is w1 = (its result); after both, w1.value and w2.value are the value w3
\* had, w3 and every other address are as they were; every operator= (of any
\* expression) returns the address of its left operand, and no Widget ever
\* changes its address.
C18_ChainedAssignment ==
    /\ [](  /\ \A i \in 1..Len(calls10) : calls10[i].ret = calls10[i].this
            /\ expr10 = <<1, 2, 3>> =>
                  /\ IsPrefix(calls10,
                        << [this |-> addr10[2], rhs |-> addr10[3], ret |-> addr10[2]],
                           [this |-> addr10[1], rhs |-> addr10[2], ret |-> addr10[1]] >>)
                  /\ mem10[addr10[3]] = mem10AtStart[addr10[3]]
                  /\ done10 = 1 => mem10[addr10[1]] = mem10AtStart[addr10[1]]
                  /\ done10 = 2 =>
                        /\ mem10[addr10[1]] = mem10AtStart[addr10[3]]
                        /\ mem10[addr10[2]] = mem10AtStart[addr10[3]]
                        /\ \A a \in Addrs10 :
                              a \notin {addr10[1], addr10[2]}
                                  => mem10[a] = mem10AtStart[a] )
    /\ [][addr10' = addr10]_vars

\* w1 = w2 = w3 has been evaluated on three Widgets whose values differed
C18_Witness ==
    /\ expr10 = <<1, 2, 3>>
    /\ done10 = 2
    /\ mem10AtStart[addr10[1]] # mem10AtStart[addr10[3]]
    /\ mem10AtStart[addr10[2]] # mem10AtStart[addr10[3]]
    /\ mem10AtStart[addr10[1]] # mem10AtStart[addr10[2]]
    /\ mem10[addr10[1]] = mem10[addr10[3]]

\* C19: built as C++11 or later, fs is raw storage until tfs() is called
\* for the first time and FileSystem() runs at most once over the run; at
\* most one thread is ever initializing fs, a thread that arrives meanwhile
\* waits; whoever tfs() has returned to was handed a fully constructed fs,
\* and by then the constructor has run exactly once.
C19_LocalStaticOnce ==
    std04 = "c++17" =>
        /\ ctors04 <= 1
        /\ (\A t \in Threads04 : n04[t] = 0) => (fs04 = "raw" /\ ctors04 = 0)
        /\ Cardinality({t \in Threads04 :
                          pc04[t] \in {"construct", "constructing", "release"}}) <= 1
        /\ (\E t \in Threads04 : pc04[t] = "wait") => guard04 # "uninit"
        /\ \A t \in waited04 :
              pc04[t] \notin {"construct", "constructing", "release"}
        /\ \A t \in Threads04 :
              /\ got04[t] \in {"none", "constructed"}
              /\ (got04[t] # "none" \/ pc04[t] = "return") =>
                    (fs04 = "constructed" /\ ctors04 = 1)

\* two threads have called tfs() at the same time: one waited while the
\* other constructed fs, and both have their reference
C19_Witness ==
    /\ std04 = "c++17"
    /\ waited04 # {}
    /\ \A t \in Threads04 : got04[t] = "constructed"
    /\ ctors04 = 1
    /\ \E t \in Threads04 : n04[t] = MaxTfsCalls

\* the value of the first argument of a logged call, evaluated once
FirstValue02(c) == Eval1(c.e1, c.aBefore).v

\* the value of the second argument of a logged call
SecondValue02(c) == Eval2(c.e2, c.b).v

\* what the note's comments say of the macro: the first argument is
\* evaluated twice when it is the greater and once otherwise, the second
\* argument twice when the first is not the greater, and a (b) grows by one
\* for every evaluation of ++a (++b); from a = 5, b = 0, CALL_WITH_MAX(++a, b)
\* leaves a at 7 and the following CALL_WITH_MAX(++a, b+10) at 8
MacroEvaluations02 ==
    /\ \A i \in 1..Len(log02) :
          log02[i].how = "macro" =>
              /\ log02[i].evals1 =
                    IF FirstValue02(log02[i]) > SecondValue02(log02[i]) THEN 2 ELSE 1
              /\ log02[i].evals2 = 3 - log02[i].evals1
              /\ log02[i].aAfter - log02[i].aBefore =
                    IF log02[i].e1 = "++a" THEN log02[i].evals1 ELSE 0
              /\ log02[i].bAfter - log02[i].b =
                    IF log02[i].e2 = "++b" THEN log02[i].evals2 ELSE 0
    /\ (/\ Len(log02) = 2
        /\ \A i \in 1..2 : log02[i].how = "macro" /\ log02[i].e1 = "++a"
        /\ log02[1].aBefore = StartA02 /\ log02[1].b = StartB02
        /\ log02[1].e2 = "b" /\ log02[2].e2 = "b+10")
         => (/\ log02[1].aAfter = StartA02 + 2
             /\ log02[2].aAfter = StartA02 + 3
             /\ a02 = StartA02 + 3)

\* the template evaluates each of its arguments once
TemplateEvaluations02 ==
    \A i \in 1..Len(log02) :
        log02[i].how = "template" =>
            /\ log02[i].evals1 = 1
            /\ log02[i].evals2 = 1
            /\ log02[i].aAfter - log02[i].aBefore =
                  IF log02[i].e1 = "++a" THEN 1 ELSE 0
            /\ log02[i].bAfter - log02[i].b =
                  IF log02[i].e2 = "++b" THEN 1 ELSE 0

\* C21 as stated: the macro evaluates its first argument twice when it is
\* the greater and once otherwise, the template evaluates each argument
\* once, and for every input the template passes to f the value that the
\* macro passes for the same arguments and the same a and b.
C21_TemplatePassesWhatMacroPasses ==
    /\ MacroEvaluations02
    /\ TemplateEvaluations02
    /\ \A i \in 1..Len(log02) :
          log02[i].how = "template" =>
              log02[i].passed =
                  MacroCall(log02[i].e1, log02[i].e2, log02[i].aBefore,
                            log02[i].b).passed

\* C21: the macro evaluates its first argument twice when it is the greater
\* and once otherwise (a = 5, b = 0: ++a twice, then once), and its second
\* argument twice when the first is not the greater; the template evaluates
\* each argument once and passes to f the greater of the two argument
\* values, which is what the macro passes unless the argument that the macro
\* evaluates twice is ++a or ++b, where the macro passes one more.
C21_MacroEvaluatesTwice ==
    /\ MacroEvaluations02
    /\ TemplateEvaluations02
    /\ \A i \in 1..Len(log02) :
          LET c == log02[i]
              v1 == FirstValue02(c)
              v2 == SecondValue02(c)
              m == MacroCall(c.e1, c.e2, c.aBefore, c.b)
          IN  c.how = "template" =>
                /\ c.passed = IF v1 > v2 THEN v1 ELSE v2
                /\ m.passed = IF \/ (c.e1 = "++a" /\ m.evals1 = 2)
                                  \/ (c.e2 = "++b" /\ m.evals2 = 2)
                               THEN c.passed + 1
                               ELSE c.passed

\* from a = 5, b = 0: CALL_WITH_MAX(++a, b) has incremented a twice, and
\* callWithMax(++a, b) after it once, passing 8 where the macro passes 9
C21_Witness ==
    /\ Len(log02) = 2
    /\ log02[1].how = "macro" /\ log02[1].e1 = "++a" /\ log02[1].e2 = "b"
    /\ log02[1].aBefore = StartA02 /\ log02[1].b = StartB02
    /\ log02[1].evals1 = 2
    /\ log02[2].how = "template" /\ log02[2].e1 = "++a" /\ log02[2].e2 = "b"
    /\ a02 = StartA02 + 3
    /\ log02[2].passed = StartA02 + 3

\* no file below src has a name that ends in .cpp (src may be missing)
NoCppFiles == {p \in srcFiles : EndsInCpp(p)} = {}

\* C22 as stated: when no .cpp file exists below src, or src is missing,
\* make list has printed the header Source files: and after it the line
\* "  (no files yet)".
C22_ListPrintsPlaceholder ==
    (Exited("list") /\ NoCppFiles) =>
        console = <<"Source files:", "  (no files yet)">>

\* C22, what the recipe does: when no .cpp file exists below src, or src is
\* missing, make list prints the header alone and exits with 0; the line
\* "  (no files yet)" is never printed by any target.
C22_ListPrintsHeaderOnly ==
    /\ (Exited("list") /\ NoCppFiles) =>
          (console = <<"Source files:">> /\ exitStatus = 0)
    /\ \A j \in 1..Len(console) : console[j] # "  (no files yet)"

\* make list has ended where src is missing
C22_Witness ==
    /\ Exited("list")
    /\ ~srcDir
    /\ NoCppFiles
    /\ Len(console) = 1

=============================================================================
